---------------------------- MODULE Spec2Model ----------------------------
(***************************************************************************)
(* A model of the Hestia multi-level simulator (pku-liang/hestia).         *)
(*                                                                         *)
(* The module is organised in sections, one per engine of the simulator:   *)
(*   - the co-simulation coordinator             (src/lib/equal.rs)        *)
(*   - the HEC handshake network                 (src/lib/env.rs,          *)
(*                                                src/lib/elastic.rs)      *)
(*   - the ToR pipelined-for time graph          (src/lib/tor.rs)          *)
(*   - the ToR if-alignment rewrite              (src/lib/tor.rs)          *)
(*   - the HEC static state-transition graphs    (src/lib/hec.rs)          *)
(*   - the software engine and the debugger      (src/lib/software.rs,     *)
(*                                                src/lib/common.rs)       *)
(*   - step(N) of the engines and of a           (src/lib/tor.rs, hec.rs,  *)
(*     Handshake module                           software.rs, common.rs)  *)
(*   - the load of a description file            (src/lib/common.rs)       *)
(*   - one handshake primitive, the DynMem       (src/lib/elastic.rs)      *)
(*   - the controllers of the software engine    (src/lib/software.rs)     *)
(*   - the ToR static walk                       (src/lib/tor.rs)          *)
(*   - calls between ToR functions               (src/lib/tor.rs)          *)
(*   - go and done of the HEC static instances   (src/lib/hec.rs)          *)
(*   - the casts of VALUE                        (src/lib/basetype.rs)     *)
(*   - tokens through a part of a handshake unit (src/lib/elastic.rs)      *)
(*   - the MuxDynamic handshake primitive        (src/lib/elastic.rs)      *)
(*   - the delayed values of HEC, ValueTiming    (src/lib/basetype.rs)     *)
(*   - the HEC pipelined for                     (src/lib/hec.rs)          *)
(*   - the queues, Stream and FIFO               (src/lib/basetype.rs,     *)
(*                                                hec.rs, tor.rs)          *)
(* Each section has its own next-state relation and specification; the     *)
(* variables of the other sections stay at their initial value.            *)
(***************************************************************************)
EXTENDS Integers, Sequences, FiniteSets, TLC

(***************************************************************************)
(* State.                                                                  *)
(***************************************************************************)
\* co-simulation: the Compare entry of the mapping, the cycles each engine
\* still runs, the position in cosim() and the panic message
VARIABLES mapped, store, high, tor_left, hec_left, cs_pc, cs_msg

\* handshake network: the units, the work-list, the visit set, the iteration
\* order of the unit HashMap and the position in step()
VARIABLES env, update_list, visit, key_order, hs_pc

\* ToR pipelined-for instance: the in-flight stages and their environments,
\* the finish flag, the loop header last stepped, whether the instance is in
\* the active list, and the loaded function (ii, edge latencies, bounds)
VARIABLES stages, tor_env, finish, for_id, tor_active, tor_fn

\* ToR if-alignment: the edges of a time graph with one if region, and
\* whether PipelineTimeGraph::new has run on it
VARIABLES if_graph, if_pc

\* HEC static instances: state, active and stall of every STG instance, the
\* ACTIVE list, the instances whose step set done to true in the last cycle,
\* whether the FIFO is empty, and which states of the loaded modules enable
\* a read of the FIFO
VARIABLES insts, hec_ACTIVE, done_asserted, fifo_empty, hec_mod, hec_reg

\* software engine: the operation stack and the variable map
VARIABLES OPERATION_STACK, VARIABLE_VALUE

\* debugger: the engine that commands go to, the breakpoints, the
\* watchpoints, whether the last cycle stopped at a breakpoint, and the
\* watchpoint lines of the last cycle that printed any
VARIABLES DEBUG_STATE, BREAKPOINT, WATCHPOINT, break_hit, printed

cosimVars == <<mapped, store, high, tor_left, hec_left, cs_pc, cs_msg>>

hsVars == <<env, update_list, visit, key_order, hs_pc>>

torVars == <<stages, tor_env, finish, for_id, tor_active, tor_fn>>

alignVars == <<if_graph, if_pc>>

stgVars == <<insts, hec_ACTIVE, done_asserted, fifo_empty, hec_mod, hec_reg>>

softVars == <<OPERATION_STACK, VARIABLE_VALUE>>

dbgVars == <<DEBUG_STATE, BREAKPOINT, WATCHPOINT, break_hit, printed>>

\* step(N): the depth N of the last call of step and the number of cycles it
\* ran before it returned
VARIABLES step_depth, step_cycle

stepVars == <<step_depth, step_cycle>>

\* load: the loaded-level flags HAS_SOFTWARE, HAS_TOR and HAS_HEC, the file
\* whose content fills the global tables of each level (0 for none), the
\* file of the last load command and what that command showed the user
VARIABLES HAS, TABLES, load_file, load_report

loadVars == <<HAS, TABLES, load_file, load_report>>

\* one handshake primitive on its own: the unit, and whether it was last
\* built, driven at its ports, propagated or updated
VARIABLES dut, dut_pc

dutVars == <<dut, dut_pc>>

\* a DynMem with two load ports on its own: the unit, whether it was last
\* built, driven, propagated or updated, and its neighbours: the addresses
\* issued in the first cycle, the ready bits of the consumers, the addresses
\* not yet accepted and the number of the cycle
VARIABLES dynmem, dm_pc, dm_test

memVars == <<dynmem, dm_pc, dm_test>>

\* the loaded Handshake module: the ports it declares as sinks, and whether
\* it assigns the result of the adder to its output out0
VARIABLES module_sinks, module_out

modVars == <<module_sinks, module_out>>

\* step(N) of a Handshake module: the number of calls made, and the cycle
\* count printed by the last call, -1 if it printed none
VARIABLES hs_steps, hs_report

runVars == <<hs_steps, hs_report>>

\* the variables of sections 7 onwards
\* the static walk of one ToR function: the position of the TimeGraph, the
\* environment and the flag of the if-end node of its instance, whether it
\* has returned, the latencies of the loaded graph; the branch the last
\* BeginIf took and the commits made on the last visit of the if-end node
VARIABLES current, walk_env, if_flag, walk_ret, walk_fn, taken, commits

walkVars == <<current, walk_env, if_flag, walk_ret, walk_fn, taken, commits>>

\* ToR calls: the instances created so far, with the steps each has made,
\* the ACTIVE list, the latency of the loaded callee
VARIABLES tor_insts, tor_ACTIVE, call_fn

callVars == <<tor_insts, tor_ACTIVE, call_fn>>

\* HEC go and done: the static instances with their environments and
\* registers, the ACTIVE list, whether the FIFO is empty, the argument of
\* the call and the number of names of the done of the callee; of the last
\* cycle: the environments as the done steps left them, the instances a go
\* activated, the instances that executed the ops of a state, the updates
\* of every instance
VARIABLES sg_insts, sg_ACTIVE, sg_empty, sg_arg, sg_mod, published, went, ran, updates

retVars == <<sg_insts, sg_ACTIVE, sg_empty, sg_arg, sg_mod, published, went, ran, updates>>

\* the casts of VALUE: the value, the two types, convert(v, T),
\* convert(convert(v, T), U) and convert(v, U) once they have been made
VARIABLES cast_v, cast_T, cast_U, cast_mid, cast_out, cast_direct

castVars == <<cast_v, cast_T, cast_U, cast_mid, cast_out, cast_direct>>

\* a part of the handshake units on its own: the part, the position in the
\* cycle, the tokens that its input has taken, the tokens that each of its
\* outputs has passed, the record of the last cycle and of the cycle before
VARIABLES part, part_pc, sent, got, last_cycle, prev_cycle

partVars == <<part, part_pc, sent, got, last_cycle, prev_cycle>>

\* Section 18: a MuxDynamic and the position in its cycle
VARIABLES mux, mux_pc

muxVars == <<mux, mux_pc>>

\* Section 19: a ValueTiming, the value staged in the cycle and the values
\* that the updates have committed
VARIABLES timed, staged, committed

timedVars == <<timed, staged, committed>>

\* Section 20: a PipeFor instance, its loop, the position in the cycle, the
\* steps that its pipeline has made and the steps at which its iterations
\* entered
VARIABLES pf, pf_fn, pf_pc, pf_clock, issued

pfVars == <<pf, pf_fn, pf_pc, pf_clock, issued>>

\* Section 21: the HEC FIFO, the ToR Stream, the failure of a pop and whether
\* a state has been stepped without the test of its streams
VARIABLES fifo, strm, q_fail, unguarded

queueVars == <<fifo, strm, q_fail, unguarded>>

\* the sections 18 onwards
lastVars == <<muxVars, timedVars, pfVars, queueVars>>

lastButMux == <<timedVars, pfVars, queueVars>>

lastButTimed == <<muxVars, pfVars, queueVars>>

lastButPf == <<muxVars, timedVars, queueVars>>

lastButQueue == <<muxVars, timedVars, pfVars>>

\* the sections 14 to 17
lateFour == <<callVars, retVars, castVars, partVars>>

\* the sections 14 onwards
lateVars == <<callVars, retVars, castVars, partVars, lastVars>>

\* the sections 14 onwards but one
lateButCall == <<retVars, castVars, partVars, lastVars>>

lateButRet == <<callVars, castVars, partVars, lastVars>>

lateButCast == <<callVars, retVars, partVars, lastVars>>

lateButPart == <<callVars, retVars, castVars, lastVars>>

extVars == <<stepVars, loadVars, dutVars, memVars, modVars, runVars, walkVars, lateVars>>

vars == <<cosimVars, hsVars, torVars, alignVars, stgVars, softVars, dbgVars, extVars>>

(***************************************************************************)
(* VALUE (basetype.rs).  A value is a pair <<type, payload>> so that       *)
(* values of different types can be compared with each other.              *)
(***************************************************************************)
ERROR == <<"error", 0>>

Control == <<"i1000", 0>>

U32(n) == <<"u32", n>>

Bool(b) == <<"bool", IF b THEN 1 ELSE 0>>

get_type(v) == v[1]

\* as_bool: ERROR reads as false, integers as "non zero"
as_bool(v) == v[2] # 0

\* as_u32: ERROR reads as 0, a bool as 0 / 1
as_u32(v) == v[2]

\* the casts panic on a Control value
cast_panics(v) == v = Control

\* a local variable: v is computed once and F is applied to its value
Bind(v, F(_)) == CHOOSE y \in {F(x) : x \in {v}} : TRUE

(***************************************************************************)
(* Section 1.  Co-simulation coordinator (equal.rs).                       *)
(*                                                                         *)
(* The two engines are seen through what cosim() uses of them: finish()    *)
(* and the list of (operation, value) pairs harvested by one step(1).      *)
(* tor_left / hec_left count the cycles after which the engine's active    *)
(* list is empty; the values an engine harvests in a cycle are inputs.     *)
(***************************************************************************)
\* longest run of an engine, in cycles
MaxRun == 3

\* most values one mapped operation yields in one cycle
MaxHarvest == 1

\* the values an operation can yield
CmpValues == {U32(0), U32(1)}

\* the back-pressure threshold of cosim()
SkewLimit == 10

RECURSIVE SeqsUpTo(_, _)
SeqsUpTo(S, n) ==
    IF n = 0 THEN {<< >>}
    ELSE LET shorter == SeqsUpTo(S, n - 1)
         IN  shorter \cup {Append(s, x) : s \in {t \in shorter : Len(t) = n - 1}, x \in S}

Harvests == SeqsUpTo(CmpValues, MaxHarvest)

MsgNone == "none"

\* the message of push_high's assert_eq!, with the mapping identity
MsgNamed == "Value Mismatch: operation op and primitive prim at state @end"

\* the message of a bare assert_eq!: left and right only
MsgBare == "assertion failed: left == right"

\* Compare::size
size(c) == IF c.high THEN Len(c.store) ELSE -Len(c.store)

\* Compare::push_high
push_high(c, value) ==
    IF c.high THEN [c EXCEPT !.store = Append(c.store, value)]
    ELSE IF c.store = << >>
         THEN [c EXCEPT !.high = TRUE, !.store = Append(c.store, value)]
         ELSE IF Head(c.store) = value
              THEN [c EXCEPT !.store = Tail(c.store)]
              ELSE [c EXCEPT !.store = Tail(c.store), !.msg = MsgNamed]

\* Compare::push_low
push_low(c, value) ==
    IF ~c.high THEN [c EXCEPT !.store = Append(c.store, value)]
    ELSE IF c.store = << >>
         THEN [c EXCEPT !.high = FALSE, !.store = Append(c.store, value)]
         ELSE IF Head(c.store) = value
              THEN [c EXCEPT !.store = Tail(c.store)]
              ELSE [c EXCEPT !.store = Tail(c.store), !.msg = MsgBare]

\* the loop over the harvested pairs of the high side; a failed assertion
\* unwinds, so the remaining pairs are not pushed
RECURSIVE push_all_high(_, _)
push_all_high(c, values) ==
    IF values = << >> \/ c.msg # MsgNone THEN c
    ELSE push_all_high(push_high(c, Head(values)), Tail(values))

RECURSIVE push_all_low(_, _)
push_all_low(c, values) ==
    IF values = << >> \/ c.msg # MsgNone THEN c
    ELSE push_all_low(push_low(c, Head(values)), Tail(values))

\* an exit test that leaves the loop as soon as one side has finished
cosim_exit_either(h, l) == h \/ l

\* the exit test of the cosim loop
cosim_exit(h, l) == h /\ l

\* tor::finish / hec::finish
tor_finish == tor_left = 0

hec_finish == hec_left = 0

\* the flags computed from the sizes of all Compare entries
sim_low_flag == mapped /\ size([store |-> store, high |-> high]) < SkewLimit

sim_high_flag == mapped /\ size([store |-> store, high |-> high]) > -SkewLimit

InitCosim ==
    /\ mapped \in BOOLEAN
    /\ store = << >>
    /\ high = TRUE
    /\ tor_left \in 0..MaxRun
    /\ hec_left \in 0..MaxRun
    /\ cs_pc = "loop"
    /\ cs_msg = MsgNone

\* the coordinator when no co-simulation is run
IdleCosim ==
    /\ mapped = FALSE
    /\ store = << >>
    /\ high = TRUE
    /\ tor_left = 0
    /\ hec_left = 0
    /\ cs_pc = "loop"
    /\ cs_msg = MsgNone

\* the break of the loop and the println! after it
CosimSuccess ==
    /\ cs_pc = "loop"
    /\ cosim_exit(tor_finish, hec_finish)
    /\ cs_pc' = "success"
    /\ UNCHANGED <<mapped, store, high, tor_left, hec_left, cs_msg>>
    /\ UNCHANGED <<hsVars, torVars, alignVars, stgVars, softVars, dbgVars, extVars>>

\* one iteration of the loop that does not break
CosimIterate ==
    /\ cs_pc = "loop"
    /\ ~cosim_exit(tor_finish, hec_finish)
    /\ \E hv \in Harvests, lv \in Harvests :
        LET c0 == [store |-> store, high |-> high, msg |-> MsgNone]
            go_high == ~tor_finish /\ sim_high_flag
            go_low == ~hec_finish /\ sim_low_flag
            c1 == IF go_high /\ mapped THEN push_all_high(c0, hv) ELSE c0
            low_runs == go_low /\ c1.msg = MsgNone
            c2 == IF low_runs /\ mapped THEN push_all_low(c1, lv) ELSE c1
        IN  /\ tor_left' = IF go_high THEN tor_left - 1 ELSE tor_left
            /\ hec_left' = IF low_runs THEN hec_left - 1 ELSE hec_left
            /\ store' = c2.store
            /\ high' = c2.high
            /\ cs_msg' = c2.msg
            /\ cs_pc' = IF c2.msg = MsgNone THEN "loop" ELSE "panic"
            /\ UNCHANGED mapped
    /\ UNCHANGED <<hsVars, torVars, alignVars, stgVars, softVars, dbgVars, extVars>>

NextCosim == CosimSuccess \/ CosimIterate

\* a run long enough for the backlog to pass the threshold
LongRun == 12

\* the harvests of engines whose mapped operation always yields the same value
SameHarvests == SeqsUpTo({U32(0)}, MaxHarvest)

\* the coordinator before cosim() is called on two long runs
InitSkew ==
    /\ mapped \in BOOLEAN
    /\ store = << >>
    /\ high = TRUE
    /\ tor_left \in 0..LongRun
    /\ hec_left \in 0..LongRun
    /\ cs_pc = "loop"
    /\ cs_msg = MsgNone

\* one iteration of the loop that does not break, with engines that yield
\* the same value
SkewIterate ==
    /\ cs_pc = "loop"
    /\ ~cosim_exit(tor_finish, hec_finish)
    /\ \E hv \in SameHarvests, lv \in SameHarvests :
        LET c0 == [store |-> store, high |-> high, msg |-> MsgNone]
            go_high == ~tor_finish /\ sim_high_flag
            go_low == ~hec_finish /\ sim_low_flag
            c1 == IF go_high /\ mapped THEN push_all_high(c0, hv) ELSE c0
            low_runs == go_low /\ c1.msg = MsgNone
            c2 == IF low_runs /\ mapped THEN push_all_low(c1, lv) ELSE c1
        IN  /\ tor_left' = IF go_high THEN tor_left - 1 ELSE tor_left
            /\ hec_left' = IF low_runs THEN hec_left - 1 ELSE hec_left
            /\ store' = c2.store
            /\ high' = c2.high
            /\ cs_msg' = c2.msg
            /\ cs_pc' = IF c2.msg = MsgNone THEN "loop" ELSE "panic"
            /\ UNCHANGED mapped
    /\ UNCHANGED <<hsVars, torVars, alignVars, stgVars, softVars, dbgVars, extVars>>

NextSkew == CosimSuccess \/ SkewIterate

(***************************************************************************)
(* Section 2.  HEC handshake network (basetype.rs, elastic.rs, env.rs).    *)
(***************************************************************************)
\* HandshakeValue::empty
hv_empty == [valid |-> FALSE, ready |-> FALSE, data |-> ERROR]

\* HandshakeValue::set_valid: the value after the call
hv_set_valid(hv, new_valid, data) == [hv EXCEPT !.valid = new_valid, !.data = data]

\* HandshakeValue::set_valid: the returned change flag
hv_valid_changed(hv, new_valid, data) == hv.valid # new_valid \/ hv.data # data

\* HandshakeValue::set_ready: the value after the call
hv_set_ready(hv, new_ready) == [hv EXCEPT !.ready = new_ready]

\* HandshakeValue::set_ready: the returned change flag
hv_ready_changed(hv, new_ready) == hv.ready # new_ready

\* a port that is reported whether or not its value changed
port_always(flag, name) == <<name>>

\* the list of one port name if the flag is set
port_if(flag, name) == IF flag THEN <<name>> ELSE << >>

\* Reg::new and Reg::init
Reg_init(val) == [enable |-> "None", value |-> val, new_value |-> ERROR]

Reg_new == Reg_init(ERROR)

\* a register that takes a value as soon as it is set
Reg_set_value_through(r, val) == [r EXCEPT !.enable = "True", !.value = val, !.new_value = val]

\* Reg::set_value
Reg_set_value(r, val) == [r EXCEPT !.enable = "True", !.new_value = val]

\* Reg::set_enable
Reg_set_enable(r, en, val) ==
    [r EXCEPT !.enable = IF en THEN "True" ELSE "False", !.new_value = val]

\* Reg::update: the register after the call
Reg_update(r) ==
    [enable |-> "None",
     value |-> IF r.enable = "True" THEN r.new_value ELSE r.value,
     new_value |-> ERROR]

\* Reg::update: the returned flag
Reg_update_flag(r) == r.enable = "True" /\ r.value # r.new_value

\* a TEHB that shows only what it has latched
TEHB_propagate_registered(t) ==
    LET full_reg == as_bool(t.full_reg.value)
        reg_en == ~full_reg /\ t.data_in.valid /\ ~t.data_out.ready
    IN  [data_in |-> hv_set_ready(t.data_in, ~full_reg),
         data_out |-> hv_set_valid(t.data_out, full_reg, t.data_reg.value),
         data_reg |-> Reg_set_enable(t.data_reg, reg_en, t.data_in.data),
         full_reg |-> Reg_set_value(t.full_reg, Bool(full_reg /\ ~t.data_out.ready))]

\* TEHB::propagate
TEHB_propagate(t) ==
    LET full_reg == as_bool(t.full_reg.value)
        reg_en == ~full_reg /\ t.data_in.valid /\ ~t.data_out.ready
        out_valid == t.data_in.valid \/ full_reg
    IN  [data_in |-> hv_set_ready(t.data_in, ~full_reg),
         data_out |-> hv_set_valid(t.data_out, out_valid,
                                   IF full_reg THEN t.data_reg.value ELSE t.data_in.data),
         data_reg |-> Reg_set_enable(t.data_reg, reg_en, t.data_in.data),
         full_reg |-> Reg_set_value(t.full_reg, Bool(out_valid /\ ~t.data_out.ready))]

\* an OEHB that lets a token through as a TEHB does
OEHB_propagate_through(o) == TEHB_propagate(o)

\* OEHB::propagate
OEHB_propagate(o) ==
    LET full_reg == as_bool(o.full_reg.value)
        in_ready == ~full_reg \/ o.data_out.ready
        reg_en == in_ready /\ o.data_in.valid
    IN  [data_in |-> hv_set_ready(o.data_in, in_ready),
         data_out |-> hv_set_valid(o.data_out, full_reg, o.data_reg.value),
         data_reg |-> Reg_set_enable(o.data_reg, reg_en, o.data_in.data),
         full_reg |-> Reg_set_value(o.full_reg, Bool(o.data_in.valid \/ ~in_ready))]

\* TEHB::update and OEHB::update: both registers are committed
EHB_update(b) ==
    [b EXCEPT !.full_reg = Reg_update(b.full_reg), !.data_reg = Reg_update(b.data_reg)]

EHB_update_flag(b) == Reg_update_flag(b.full_reg) \/ Reg_update_flag(b.data_reg)

\* TEHB::new followed by TEHB::init, OEHB::new followed by OEHB::init
EHB_fresh ==
    [data_in |-> hv_empty, data_out |-> hv_empty,
     full_reg |-> Reg_init(Bool(FALSE)), data_reg |-> Reg_init(U32(0))]

TEHB_set == TEHB_propagate(EHB_fresh)

OEHB_set == OEHB_propagate(EHB_fresh)

\* the result of a unit's propagate(): the unit, the changed ports in the
\* order they are reported, and whether no assertion failed
prop_result(u, ch, ok) == [u |-> u, ch |-> ch, ok |-> ok]

\* ElasticBuffer::set
ElasticBuffer_set ==
    [kind |-> "buffer",
     p |-> [data_in |-> hv_empty, data_out |-> hv_empty],
     tehb |-> TEHB_set, oehb |-> OEHB_set]

\* ElasticBuffer::propagate, first half: the TEHB is given the input token
\* and the readiness of the OEHB and is propagated if one of them changed
ElasticBuffer_tehb(u, new_ready) ==
    LET touched == \/ hv_valid_changed(u.tehb.data_in, u.p.data_in.valid, u.p.data_in.data)
                   \/ hv_ready_changed(u.tehb.data_out, new_ready)
        t1 == [u.tehb EXCEPT
                 !.data_in = hv_set_valid(@, u.p.data_in.valid, u.p.data_in.data),
                 !.data_out = hv_set_ready(@, new_ready)]
    IN  IF touched THEN Bind(t1, TEHB_propagate) ELSE t1

\* ElasticBuffer::propagate, second half: the OEHB is given the output
\* readiness and the token of the TEHB and is propagated if one changed
ElasticBuffer_oehb(u, t2) ==
    LET touched == \/ hv_ready_changed(u.oehb.data_out, u.p.data_out.ready)
                   \/ hv_valid_changed(u.oehb.data_in, t2.data_out.valid, t2.data_out.data)
        o1 == [u.oehb EXCEPT
                 !.data_out = hv_set_ready(@, u.p.data_out.ready),
                 !.data_in = hv_set_valid(@, t2.data_out.valid, t2.data_out.data)]
    IN  IF touched THEN Bind(o1, OEHB_propagate) ELSE o1

\* ElasticBuffer::propagate, the end: the assertion and the two outer ports
ElasticBuffer_ports(u, new_ready, t2, o2) ==
    prop_result([u EXCEPT !.tehb = t2, !.oehb = o2,
                          !.p.data_in = hv_set_ready(@, t2.data_in.ready),
                          !.p.data_out = hv_set_valid(@, o2.data_out.valid, o2.data_out.data)],
                port_if(hv_ready_changed(u.p.data_in, t2.data_in.ready), "data_in")
                \o port_if(hv_valid_changed(u.p.data_out, o2.data_out.valid, o2.data_out.data),
                           "data_out"),
                new_ready = o2.data_in.ready)

\* ElasticBuffer::propagate
ElasticBuffer_propagate(u) ==
    LET new_ready == ~as_bool(u.oehb.full_reg.value) \/ u.p.data_out.ready
    IN  Bind(ElasticBuffer_tehb(u, new_ready), LAMBDA t2 :
          Bind(ElasticBuffer_oehb(u, t2), LAMBDA o2 :
            ElasticBuffer_ports(u, new_ready, t2, o2)))

\* ElasticBuffer::update
ElasticBuffer_update(u) ==
    [u EXCEPT
       !.tehb = IF EHB_update_flag(@) THEN Bind(EHB_update(@), TEHB_propagate)
                ELSE EHB_update(@),
       !.oehb = IF EHB_update_flag(@) THEN Bind(EHB_update(@), OEHB_propagate)
                ELSE EHB_update(@)]

ElasticBuffer_update_flag(u) == EHB_update_flag(u.tehb) \/ EHB_update_flag(u.oehb)

\* the names of the output ports of a Fork(2)
ForkOut == <<"data_out.0", "data_out.1">>

\* Fork::set(2)
Fork_set ==
    [kind |-> "fork",
     p |-> [n \in {"data_in"} \cup {ForkOut[i] : i \in 1..2} |-> hv_empty],
     sub_reg |-> [i \in 1..2 |-> Reg_init(Bool(TRUE))]]

\* a Fork that offers nothing to its consumers
Fork_propagate_idle(u) == prop_result(u, << >>, TRUE)

\* Fork::propagate
Fork_propagate(u) ==
    LET n == Len(u.sub_reg)
        reg(i) == as_bool(u.sub_reg[i].value)
        out_valid(i) == reg(i) /\ u.p.data_in.valid
        block_stop(i) == reg(i) /\ ~u.p[ForkOut[i]].ready
        any_stop == \E i \in 1..n : block_stop(i)
        outs_ch[i \in 0..n] ==
            IF i = 0 THEN << >>
            ELSE outs_ch[i - 1]
                 \o port_if(hv_valid_changed(u.p[ForkOut[i]], out_valid(i), u.p.data_in.data),
                            ForkOut[i])
    IN  prop_result(
          [u EXCEPT
             !.p = [name \in DOMAIN u.p |->
                      IF name = "data_in" THEN hv_set_ready(u.p.data_in, ~any_stop)
                      ELSE LET i == CHOOSE j \in 1..n : ForkOut[j] = name
                           IN  hv_set_valid(u.p[name], out_valid(i), u.p.data_in.data)],
             !.sub_reg = [i \in 1..n |->
                      Reg_set_value(u.sub_reg[i],
                                    Bool(block_stop(i) \/ ~(u.p.data_in.valid /\ any_stop)))]],
          outs_ch[n] \o port_if(hv_ready_changed(u.p.data_in, ~any_stop), "data_in"),
          TRUE)

\* a Fork whose sub-registers are never committed
Fork_update_kept(u) == u

\* Fork::update: every sub-register is committed
Fork_update(u) == [u EXCEPT !.sub_reg = [i \in DOMAIN u.sub_reg |-> Reg_update(u.sub_reg[i])]]

\* Fork::update: the fold starts from true, so the flag is always set
Fork_update_flag(u) == TRUE \/ \E i \in DOMAIN u.sub_reg : Reg_update_flag(u.sub_reg[i])

\* ConstantElastic::new with the constant baked in by HandshakeEnv::new
ConstantElastic_new(val) ==
    [kind |-> "constant",
     p |-> [control |-> hv_empty, data_out |-> hv_empty],
     data_in |-> val]

\* ConstantElastic::propagate
ConstantElastic_propagate(u) ==
    prop_result([u EXCEPT !.p.control = hv_set_ready(@, u.p.data_out.ready),
                          !.p.data_out = hv_set_valid(@, u.p.control.valid, u.data_in)],
                port_if(hv_ready_changed(u.p.control, u.p.data_out.ready), "control")
                \o port_if(hv_valid_changed(u.p.data_out, u.p.control.valid, u.data_in),
                           "data_out"),
                TRUE)

\* add (binary_operation_fp!): only numeric return types compute; the sums
\* of this network are at most twice the constant, far from the u32 range
add(ret_type, values) ==
    IF ret_type = "u32" THEN U32(as_u32(values[1]) + as_u32(values[2]))
    ELSE ERROR

\* create_function_same_type("add_integer")
add_integer(values) == add(get_type(values[1]), values)

\* the casts made by add_integer panic on a Control operand
add_integer_panics(values) ==
    get_type(values[1]) = "u32" /\ (cast_panics(values[1]) \/ cast_panics(values[2]))

\* BinaryUnit::set(add_integer)
BinaryUnit_set ==
    [kind |-> "add_integer",
     p |-> [operand0 |-> hv_empty, operand1 |-> hv_empty, result |-> hv_empty]]

\* BinaryUnit::propagate
BinaryUnit_propagate(u) ==
    LET r0 == u.p.operand1.valid /\ u.p.result.ready
        r1 == u.p.operand0.valid /\ u.p.result.ready
        v == u.p.operand0.valid /\ u.p.operand1.valid
        operands == <<u.p.operand0.data, u.p.operand1.data>>
        d == add_integer(operands)
    IN  prop_result([u EXCEPT !.p.operand0 = hv_set_ready(@, r0),
                              !.p.operand1 = hv_set_ready(@, r1),
                              !.p.result = hv_set_valid(@, v, d)],
                    port_if(hv_ready_changed(u.p.operand0, r0), "operand0")
                    \o port_if(hv_ready_changed(u.p.operand1, r1), "operand1")
                    \o port_if(hv_valid_changed(u.p.result, v, d), "result"),
                    ~add_integer_panics(operands))

\* the depth of the ElasticFIFO
FifoDepth == 2

\* ElasticFIFO::set(FifoDepth)
ElasticFIFO_set ==
    [kind |-> "fifo",
     p |-> [data_in |-> hv_empty, data_out |-> hv_empty],
     queue |-> << >>, new_value |-> ERROR]

\* ElasticFIFO::propagate
ElasticFIFO_propagate(u) ==
    LET in_ready == Len(u.queue) < FifoDepth
        front == IF u.queue = << >> THEN ERROR ELSE Head(u.queue)
    IN  prop_result([u EXCEPT !.p.data_in = hv_set_ready(@, in_ready),
                              !.p.data_out = hv_set_valid(@, u.queue # << >>, front),
                              !.new_value = u.p.data_in.data],
                    port_if(hv_ready_changed(u.p.data_in, in_ready), "data_in")
                    \o port_if(hv_valid_changed(u.p.data_out, u.queue # << >>, front),
                               "data_out"),
                    TRUE)

\* an ElasticFIFO that pops whenever its output is valid
ElasticFIFO_update_eager(u) ==
    LET do_enq == u.p.data_in.valid /\ u.p.data_in.ready
        pushed == IF do_enq THEN Append(u.queue, u.new_value) ELSE u.queue
    IN  [u EXCEPT !.queue = IF u.p.data_out.valid /\ pushed # << >> THEN Tail(pushed)
                            ELSE pushed]

\* ElasticFIFO::update
ElasticFIFO_update(u) ==
    LET do_enq == u.p.data_in.valid /\ u.p.data_in.ready
        do_deq == u.p.data_out.valid /\ u.p.data_out.ready
        pushed == IF do_enq THEN Append(u.queue, u.new_value) ELSE u.queue
    IN  [u EXCEPT !.queue = IF do_deq /\ pushed # << >> THEN Tail(pushed) ELSE pushed]

\* IsHandshake::propagate, dispatched on the unit's type
unit_propagate(u) ==
    CASE u.kind = "buffer" -> ElasticBuffer_propagate(u)
      [] u.kind = "fork" -> Fork_propagate(u)
      [] u.kind = "fifo" -> ElasticFIFO_propagate(u)
      [] u.kind = "constant" -> ConstantElastic_propagate(u)
      [] u.kind = "add_integer" -> BinaryUnit_propagate(u)

\* IsHandshake::update: the unit after the call (the default changes nothing)
unit_update(u) ==
    CASE u.kind = "buffer" -> ElasticBuffer_update(u)
      [] u.kind = "fork" -> Fork_update(u)
      [] u.kind = "fifo" -> ElasticFIFO_update(u)
      [] OTHER -> u

\* IsHandshake::update: the returned flag (the default returns false)
unit_update_flag(u) ==
    CASE u.kind = "buffer" -> ElasticBuffer_update_flag(u)
      [] u.kind = "fork" -> Fork_update_flag(u)
      [] u.kind = "fifo" -> ElasticFIFO_update(u).queue # u.queue
      [] OTHER -> FALSE

(***************************************************************************)
(* The network that is simulated:                                          *)
(*                                                                         *)
(*   in0 -> const0 -> fork0 -+-> buf0 -> add0.operand0                     *)
(*                           +---------> add0.operand1     add0 -> out0    *)
(*                                                                         *)
(* A port is <<unit, port name>>; a top-level port has the unit "".        *)
(***************************************************************************)
Units == {"const0", "fork0", "buf0", "add0"}

\* the value of the constant wired to const0.data_in
ConstValue == U32(1)

\* handshake.assign of the module, as (src, dst) pairs; the last one is
\* left out of a module whose adder feeds no output
Wires ==
    << << <<"", "in0">>, <<"const0", "control">> >>,
       << <<"const0", "data_out">>, <<"fork0", "data_in">> >>,
       << <<"fork0", "data_out.0">>, <<"buf0", "data_in">> >>,
       << <<"buf0", "data_out">>, <<"add0", "operand0">> >>,
       << <<"fork0", "data_out.1">>, <<"add0", "operand1">> >> >>
    \o (IF module_out THEN << << <<"add0", "result">>, <<"", "out0">> >> >> ELSE << >>)

TopInputs == {"in0"}

TopOutputs == IF module_out THEN {"out0"} ELSE {}

\* assign.get_vec(port): both directions of every wire, in insertion order
peers(port) ==
    LET acc[i \in 0..Len(Wires)] ==
          IF i = 0 THEN << >>
          ELSE acc[i - 1]
               \o (IF Wires[i][1] = port THEN <<Wires[i][2]>> ELSE << >>)
               \o (IF Wires[i][2] = port THEN <<Wires[i][1]>> ELSE << >>)
    IN  acc[Len(Wires)]

\* the units built by HandshakeEnv::new (create_handshake and init)
units_new ==
    [n \in Units |->
       CASE n = "const0" -> ConstantElastic_new(ConstValue)
         [] n = "fork0" -> Fork_set
         [] n = "buf0" -> ElasticBuffer_set
         [] n = "add0" -> BinaryUnit_set]

\* a write to a peer that does not queue the peer
enqueue_dropped(h, unit_name) == h

\* the push_back guarded by the visit set
enqueue(h, unit_name) ==
    IF unit_name \in h.visit THEN h
    ELSE [h EXCEPT !.update_list = Append(@, unit_name), !.visit = @ \cup {unit_name}]

\* a delivery that skips the write when the peer is already queued
deliver_one_unless_queued(h, port, val) ==
    IF port[1] = "" \/ port[1] \in h.visit THEN h
    ELSE Bind([h EXCEPT !.env[port[1]].p[port[2]] = val], LAMBDA h1 : enqueue(h1, port[1]))

\* one peer of a changed port: the whole HandshakeValue is written into the
\* peer's port and the peer is queued; a peer without a unit is a top-level
\* port and is only printed
deliver_one(h, port, val) ==
    IF port[1] = "" THEN h
    ELSE Bind([h EXCEPT !.env[port[1]].p[port[2]] = val], LAMBDA h1 : enqueue(h1, port[1]))

\* the loop over the peers of one changed port
RECURSIVE deliver(_, _, _)
deliver(h, ports, val) ==
    IF ports = << >> THEN h
    ELSE Bind(deliver_one(h, Head(ports), val), LAMBDA h1 : deliver(h1, Tail(ports), val))

\* the zip(update_port, value) loop
RECURSIVE deliver_ports(_, _, _, _)
deliver_ports(h, unit_name, names, values) ==
    IF names = << >> THEN h
    ELSE Bind(deliver(h, peers(<<unit_name, Head(names)>>), Head(values)), LAMBDA h1 :
           deliver_ports(h1, unit_name, Tail(names), Tail(values)))

\* the work-list after pop_front, the unit after its propagate()
after_propagate(h, r) ==
    [env |-> [h.env EXCEPT ![Head(h.update_list)] = r.u],
     update_list |-> Tail(h.update_list),
     visit |-> h.visit \ {Head(h.update_list)},
     ok |-> h.ok /\ r.ok]

\* one iteration of the while loop of HandshakeEnv::propagate
propagate_one(h) ==
    Bind(unit_propagate(h.env[Head(h.update_list)]), LAMBDA r :
      Bind(after_propagate(h, r), LAMBDA h1 :
        deliver_ports(h1, Head(h.update_list), r.ch,
                      [i \in 1..Len(r.ch) |-> r.u.p[r.ch[i]]])))

\* an update that queues the unit without marking it as queued
update_unit_unvisited(h, n) ==
    [h EXCEPT !.env[n] = unit_update(@),
              !.update_list = IF unit_update_flag(h.env[n]) THEN Append(@, n) ELSE @]

\* one unit of HandshakeEnv::update: it is queued, without a look at the
\* visit set, when its update() returns true
update_unit(h, n) ==
    [h EXCEPT !.env[n] = unit_update(@),
              !.update_list = IF unit_update_flag(h.env[n]) THEN Append(@, n) ELSE @,
              !.visit = IF unit_update_flag(h.env[n]) THEN @ \cup {n} ELSE @]

\* HandshakeEnv::update: every unit is updated, in the iteration order of
\* the HashMap
RECURSIVE update_units(_, _)
update_units(h, names) ==
    IF names = << >> THEN h
    ELSE Bind(update_unit(h, Head(names)), LAMBDA h1 : update_units(h1, Tail(names)))

\* HandshakeEnv::set_port_ready
set_port_ready(h, port, ready) ==
    IF port[1] = "" THEN h
    ELSE IF hv_ready_changed(h.env[port[1]].p[port[2]], ready)
         THEN enqueue([h EXCEPT !.env[port[1]].p[port[2]] = hv_set_ready(@, ready)], port[1])
         ELSE h

\* HandshakeEnv::set_port_valid
set_port_valid(h, port, data, valid) ==
    IF port[1] = "" THEN h
    ELSE IF hv_valid_changed(h.env[port[1]].p[port[2]], valid, data)
         THEN enqueue([h EXCEPT !.env[port[1]].p[port[2]] = hv_set_valid(@, valid, data)],
                      port[1])
         ELSE h

\* HandshakeEnv::set_ready
RECURSIVE set_ready(_, _, _)
set_ready(h, ports, ready) ==
    IF ports = << >> THEN h
    ELSE Bind(set_port_ready(h, Head(ports), ready), LAMBDA h1 :
           set_ready(h1, Tail(ports), ready))

\* HandshakeEnv::set_valid
RECURSIVE set_valid(_, _, _, _)
set_valid(h, ports, data, valid) ==
    IF ports = << >> THEN h
    ELSE Bind(set_port_valid(h, Head(ports), data, valid), LAMBDA h1 :
           set_valid(h1, Tail(ports), data, valid))

\* the handshake environment held in the variables
hs_now == [env |-> env, update_list |-> update_list, visit |-> visit, ok |-> TRUE]

\* the orders in which a HashMap can iterate over the units
KeyOrders ==
    LET n == Cardinality(Units)
    IN  {s \in [1..n -> Units] : \A i, j \in 1..n : s[i] = s[j] => i = j}

\* HandshakeEnv::new and create_env: every unit is queued once
InitHS ==
    /\ key_order \in KeyOrders
    /\ env = units_new
    /\ update_list = key_order
    /\ visit = Units
    /\ hs_pc = "idle"

\* the network before it is used, under one iteration order
IdleHS ==
    /\ key_order = <<"add0", "buf0", "const0", "fork0">>
    /\ env = units_new
    /\ update_list = key_order
    /\ visit = Units
    /\ hs_pc = "idle"

\* the module of the figure, without sinks
IdleModule ==
    /\ module_sinks = {}
    /\ module_out = TRUE

\* the ports that a module can declare as sinks
SinkPorts == {<<"add0", "result">>}

\* a sink that is left as it was built
sink_skipped(h, sink) == h

\* a sink that no assign names is set ready
sink_ready(h, sink) == IF peers(sink) = << >> THEN set_port_ready(h, sink, TRUE) ELSE h

\* the loop over handshake.sinks at the end of HandshakeEnv::new
RECURSIVE sinks_ready(_, _)
sinks_ready(h, sinks) ==
    IF sinks = {} THEN h
    ELSE LET sink == CHOOSE x \in sinks : TRUE
         IN  sinks_ready(sink_ready(h, sink), sinks \ {sink})

\* HandshakeEnv::new of a module with sinks
InitSink ==
    /\ module_sinks \in SUBSET SinkPorts
    /\ module_out \in BOOLEAN
    /\ key_order \in KeyOrders
    /\ \E h \in {sinks_ready([env |-> units_new, update_list |-> key_order,
                               visit |-> Units, ok |-> TRUE], module_sinks)} :
         /\ env = h.env
         /\ update_list = h.update_list
         /\ visit = h.visit
    /\ hs_pc = "idle"

\* the new values of the variables of the environment
hs_becomes(h) ==
    /\ env' = h.env
    /\ update_list' = h.update_list
    /\ visit' = h.visit

\* command "valid <port> control"
Valid ==
    /\ hs_pc = "idle"
    /\ \E port \in TopInputs :
         \E h \in {set_valid(hs_now, peers(<<"", port>>), Control, TRUE)} : hs_becomes(h)
    /\ UNCHANGED <<key_order, hs_pc>>
    /\ UNCHANGED <<cosimVars, torVars, alignVars, stgVars, softVars, dbgVars, extVars>>

\* command "invalid <port>"
Invalid ==
    /\ hs_pc = "idle"
    /\ \E port \in TopInputs :
         \E h \in {set_valid(hs_now, peers(<<"", port>>), ERROR, FALSE)} : hs_becomes(h)
    /\ UNCHANGED <<key_order, hs_pc>>
    /\ UNCHANGED <<cosimVars, torVars, alignVars, stgVars, softVars, dbgVars, extVars>>

\* command "ready <port>"
Ready ==
    /\ hs_pc = "idle"
    /\ \E port \in TopOutputs :
         \E h \in {set_ready(hs_now, peers(<<"", port>>), TRUE)} : hs_becomes(h)
    /\ UNCHANGED <<key_order, hs_pc>>
    /\ UNCHANGED <<cosimVars, torVars, alignVars, stgVars, softVars, dbgVars, extVars>>

\* command "step": the cycle starts with HandshakeEnv::propagate
StepBegin ==
    /\ hs_pc = "idle"
    /\ hs_pc' = "propagate"
    /\ UNCHANGED <<env, update_list, visit, key_order>>
    /\ UNCHANGED <<cosimVars, torVars, alignVars, stgVars, softVars, dbgVars, extVars>>

\* one iteration of the work-list loop
PropagateUnit ==
    /\ hs_pc = "propagate"
    /\ update_list # << >>
    /\ \E h \in {propagate_one(hs_now)} :
         /\ hs_becomes(h)
         /\ hs_pc' = IF h.ok THEN "propagate" ELSE "panic"
    /\ UNCHANGED key_order
    /\ UNCHANGED <<cosimVars, torVars, alignVars, stgVars, softVars, dbgVars, extVars>>

\* the work-list is empty: HandshakeEnv::update ends the cycle
Update ==
    /\ hs_pc = "propagate"
    /\ update_list = << >>
    /\ \E h \in {update_units(hs_now, key_order)} : hs_becomes(h)
    /\ hs_pc' = "idle"
    /\ UNCHANGED key_order
    /\ UNCHANGED <<cosimVars, torVars, alignVars, stgVars, softVars, dbgVars, extVars>>

NextHS == Valid \/ Invalid \/ Ready \/ StepBegin \/ PropagateUnit \/ Update

\* most unit propagations of one drain of the work-list
DrainFuel == 40

\* HandshakeEnv::propagate run to the end of its loop
RECURSIVE drain(_, _)
drain(h, fuel) ==
    IF h.update_list = << >> \/ fuel = 0 \/ ~h.ok THEN h
    ELSE Bind(propagate_one(h), LAMBDA h1 : drain(h1, fuel - 1))

(***************************************************************************)
(* Section 3.  ToR pipelined-for (tor.rs).                                 *)
(*                                                                         *)
(* The loaded function is one pipelined loop                               *)
(*                                                                         *)
(*     0:BeginFor -> 1 -> 2 -> 3:EndFor          0 -static-for-> 4:Return  *)
(*                                                                         *)
(* whose edge 1 -> 2 reads a stream and whose edge 2 -> 3 computes         *)
(* t = c + i; the loop yields t into the iter-arg c and names its result   *)
(* r.  A stage is (node, edge_cycle, iter_cycle, if_emitted).              *)
(***************************************************************************)
\* largest initiation interval
MaxII == 2

\* largest latency of a body edge
MaxLat == 2

\* largest upper bound of the loop
MaxUb == 3

ForStart == 0

ForEnd == 3

EndNode == 4

\* Control of every node
node_kind(n) ==
    CASE n = ForStart -> "BeginFor"
      [] n = ForEnd -> "EndFor"
      [] n = EndNode -> "Return"
      [] OTHER -> "Normal"

\* the edges out of every node, in the order of the JSON description
tor_graph(fn) ==
    [n \in 0..EndNode |->
       CASE n = ForStart -> << [to |-> 1, edge_type |-> "static", n |-> 1, stream |-> FALSE,
                                ops |-> {}],
                               [to |-> EndNode, edge_type |-> "static-for", n |-> 1,
                                stream |-> FALSE, ops |-> {}] >>
         [] n = 1 -> << [to |-> 2, edge_type |-> "static:", n |-> fn.lat[1], stream |-> TRUE,
                         ops |-> {}] >>
         [] n = 2 -> << [to |-> ForEnd, edge_type |-> "static:", n |-> fn.lat[2],
                         stream |-> FALSE, ops |-> {"t"}] >>
         [] OTHER -> << >>]

\* Edge::get_latency
get_latency(edge) == IF edge.edge_type = "static:" THEN edge.n ELSE 1

\* the first edge out of a loop header that is, or is not, the static-for edge
for_edge(fn, header, exit) ==
    LET es == tor_graph(fn)[header]
        i == CHOOSE j \in 1..Len(es) :
               /\ (es[j].edge_type = "static-for") = exit
               /\ \A k \in 1..(j - 1) : (es[k].edge_type = "static-for") # exit
    IN  es[i]

\* cmp_lte on two integers
cmp_lte(a, b) == a <= b

\* PipelineTimeGraph::new with the environment built by the Call
pipe_new == [stages |-> << [node |-> ForStart, edge_cycle |-> 0, iter_cycle |-> 0,
                            if_emitted |-> FALSE] >>,
             env |-> << [i |-> 0, c |-> 0, t |-> 0, r |-> 0] >>,
             finish |-> FALSE, for_id |-> 0, ok |-> TRUE, ret |-> FALSE, hit |-> FALSE]

\* a stage moved to another node
moved(st, to) == [st EXCEPT !.node = to, !.edge_cycle = 0, !.if_emitted = FALSE]

\* PipelineTimeGraph::step_one_stage at a Normal node
step_normal(g, fn, index) ==
    LET cur == g.stages[index]
        edge == tor_graph(fn)[cur.node][1]
        arrive == cur.edge_cycle + 1 = get_latency(edge)
        st1 == [cur EXCEPT !.edge_cycle = @ + 1, !.iter_cycle = @ + 1]
    IN  [g EXCEPT
           !.stages[index] = IF arrive THEN moved(st1, edge.to) ELSE st1,
           !.env[index] = IF arrive /\ cur.node = 2
                          THEN [@ EXCEPT !.t = g.env[index].c + g.env[index].i]
                          ELSE @]

\* PipelineTimeGraph::step_one_stage at the EndFor node: the yield goes into
\* the loop result if this is the only stage, else into the iter-arg of the
\* next stage's environment
step_end_for(g, fn, index) ==
    LET cur == g.stages[index]
        value == g.env[index].t
        st1 == moved([cur EXCEPT !.iter_cycle = @ + 1], for_edge(fn, ForStart, TRUE).to)
    IN  IF Len(g.stages) = 1
        THEN [g EXCEPT !.stages[index] = st1, !.env[index].r = value]
        ELSE IF index + 1 > Len(g.env)
             THEN [g EXCEPT !.ok = FALSE]
             ELSE [g EXCEPT !.stages[index] = st1, !.env[index + 1].c = value]

\* PipelineTimeGraph::step_one_stage at a node other than BeginFor
step_inner(g, fn, index) ==
    CASE node_kind(g.stages[index].node) = "Normal" -> step_normal(g, fn, index)
      [] node_kind(g.stages[index].node) = "EndFor" -> step_end_for(g, fn, index)
      [] node_kind(g.stages[index].node) = "Return" -> [g EXCEPT !.ret = TRUE]

\* PipelineTimeGraph::step_one_stage at the BeginFor node: the stage enters
\* the body, or leaves by the static-for edge
step_begin_for(g, fn, index) ==
    LET enter == cmp_lte(fn.lb, fn.ub)
    IN  [g EXCEPT
           !.for_id = g.stages[index].node,
           !.stages[index] = moved([@ EXCEPT !.iter_cycle = @ + 1],
                                   for_edge(fn, g.stages[index].node, ~enter).to),
           !.env[index] = IF enter THEN [@ EXCEPT !.i = fn.lb, !.c = fn.init] ELSE @]

\* PipelineTimeGraph::step_one_stage; the stage that has left the loop
\* header is stepped again in the same call
step_one_stage(g, fn, index) ==
    IF node_kind(g.stages[index].node) = "BeginFor"
    THEN Bind(step_begin_for(g, fn, index), LAMBDA g1 : step_inner(g1, fn, index))
    ELSE step_inner(g, fn, index)

\* the loop of PipelineTimeGraph::step over the stages that exist when the
\* call starts
RECURSIVE step_stages(_, _, _)
step_stages(g, fn, index) ==
    IF index > Len(g.stages) \/ ~g.ok THEN g
    ELSE Bind(step_one_stage(g, fn, index), LAMBDA g1 : step_stages(g1, fn, index + 1))

\* a threshold that lets the next iteration in one cycle early
pipeline_due_early(last_stage, ii) == last_stage.iter_cycle = ii

\* the test of PipelineTimeGraph::pipeline on the most recent stage
pipeline_due(last_stage, ii) == last_stage.iter_cycle = ii + 1

\* a pipeline that puts the entering iteration before the ones in flight
pipeline_front(g, fn) ==
    LET last == Len(g.stages)
        new_iter == g.env[last].i + fn.step
    IN  IF g.finish \/ ~pipeline_due(g.stages[last], fn.ii)
           \/ node_kind(g.for_id) # "BeginFor"
        THEN g
        ELSE IF cmp_lte(new_iter, fn.ub)
             THEN [g EXCEPT
                     !.env = <<[g.env[last] EXCEPT !.i = new_iter]>> \o @,
                     !.stages = <<[node |-> for_edge(fn, g.for_id, FALSE).to,
                                   edge_cycle |-> 0, iter_cycle |-> 1,
                                   if_emitted |-> FALSE]>> \o @]
             ELSE [g EXCEPT !.finish = TRUE]

\* PipelineTimeGraph::pipeline
pipeline(g, fn) ==
    LET last == Len(g.stages)
        new_iter == g.env[last].i + fn.step
    IN  IF g.finish \/ ~pipeline_due(g.stages[last], fn.ii)
           \/ node_kind(g.for_id) # "BeginFor"
        THEN g
        ELSE IF cmp_lte(new_iter, fn.ub)
             THEN [g EXCEPT
                     !.env = Append(@, [g.env[last] EXCEPT !.i = new_iter]),
                     !.stages = Append(@, [node |-> for_edge(fn, g.for_id, FALSE).to,
                                           edge_cycle |-> 0, iter_cycle |-> 1,
                                           if_emitted |-> FALSE])]
             ELSE [g EXCEPT !.finish = TRUE]

\* PipelineTimeGraph::check_stream: a stage on the edge that reads the
\* stream stalls every stage while the stream is empty
check_stream(g, fn, stream_ready) ==
    \A index \in 1..Len(g.stages) :
        LET es == tor_graph(fn)[g.stages[index].node]
        IN  node_kind(g.stages[index].node) = "Normal" /\ es[1].stream => stream_ready

\* PipelineTimeGraph::step
pipe_step(g, fn, stream_ready) ==
    IF ~check_stream(g, fn, stream_ready) THEN g
    ELSE Bind(step_stages(g, fn, 1), LAMBDA g1 : IF g1.ok THEN pipeline(g1, fn) ELSE g1)

\* PipelineTimeGraph::drop
pipe_drop(g, fn) ==
    IF Len(g.stages) > 1
    THEN IF g.stages[1].node = EndNode
         THEN [g EXCEPT !.stages = Tail(@), !.env = Tail(@)]
         ELSE g
    ELSE IF g.stages[1].node = EndNode THEN step_one_stage(g, fn, 1) ELSE g

\* PipeForInstance::step
PipeForInstance_step(g, fn, stream_ready) ==
    Bind(pipe_step(g, fn, stream_ready), LAMBDA g1 :
      IF g1.ok /\ ~g1.ret THEN pipe_drop(g1, fn) ELSE g1)

\* the pipelined-for instance held in the variables
pipe_now == [stages |-> stages, env |-> tor_env, finish |-> finish, for_id |-> for_id,
             ok |-> TRUE, ret |-> FALSE, hit |-> FALSE]

\* PipelineTimeGraph::mark_one_stage: the operations that end in this cycle,
\* or the results of the loop whose header the stage is on, have a breakpoint
mark_one_stage(g, fn, index, bps) ==
    LET cur == g.stages[index]
    IN  CASE node_kind(cur.node) = "Normal" ->
               LET edge == tor_graph(fn)[cur.node][1]
               IN  /\ edge.ops # {}
                   /\ cur.edge_cycle + 1 = get_latency(edge)
                   /\ edge.ops \cap bps # {}
          [] node_kind(cur.node) = "BeginFor" -> "r" \in bps
          [] OTHER -> FALSE

\* PipelineTimeGraph::mark
pipe_mark(g, fn, bps) == \E index \in 1..Len(g.stages) : mark_one_stage(g, fn, index, bps)

\* a cycle that steps the instance before it tests the breakpoints
tor_cycle_late(g, fn, breakpoint, bps, stream_ready) ==
    Bind(PipeForInstance_step(g, fn, stream_ready), LAMBDA g1 :
      IF breakpoint /\ pipe_mark(g, fn, bps) THEN [g1 EXCEPT !.hit = TRUE] ELSE g1)

\* one cycle of tor::step on the pipelined-for instance: the breakpoint test,
\* then the step of the drained instance
tor_cycle(g, fn, breakpoint, bps, stream_ready) ==
    IF breakpoint /\ pipe_mark(g, fn, bps) THEN [g EXCEPT !.hit = TRUE]
    ELSE PipeForInstance_step(g, fn, stream_ready)

\* the watchpoint lines of tor::step: every watched variable of every stage
\* environment of the instance, if it is still in the active list
tor_watch(active, envs, wps) ==
    IF active # "active" THEN {}
    ELSE {<<var, index, envs[index][var]>> :
            var \in wps \cap {"i", "c", "t", "r"}, index \in 1..Len(envs)}

\* the lines printed by a cycle replace the ones kept from an earlier cycle
print_lines(lines, old) == IF lines = {} THEN old ELSE lines

\* the functions that can be loaded, and the instance made by the Call
InitTor ==
    /\ tor_fn \in [ii : 0..MaxII, lat : [1..2 -> 1..MaxLat], lb : 0..1, ub : 0..MaxUb,
                   step : {1}, init : {0}]
    /\ stages = pipe_new.stages
    /\ tor_env = pipe_new.env
    /\ finish = FALSE
    /\ for_id = 0
    /\ tor_active = "active"

\* the ToR engine with one fixed function loaded
IdleTor ==
    /\ tor_fn = [ii |-> 1, lat |-> <<1, 2>>, lb |-> 0, ub |-> 2, step |-> 1, init |-> 0]
    /\ stages = pipe_new.stages
    /\ tor_env = pipe_new.env
    /\ finish = FALSE
    /\ for_id = 0
    /\ tor_active = "active"

\* one cycle of tor::step(depth, breakpoint) for the pipelined-for instance:
\* a breakpoint hit returns at once, a Return takes the instance out of the
\* active list, the watchpoints are printed last
TorCycle ==
    /\ tor_active = "active"
    /\ \E breakpoint \in BOOLEAN, stream_ready \in BOOLEAN :
         \E g \in {tor_cycle(pipe_now, tor_fn, breakpoint, BREAKPOINT, stream_ready)} :
           /\ stages' = g.stages
           /\ tor_env' = g.env
           /\ finish' = g.finish
           /\ for_id' = g.for_id
           /\ tor_active' = IF ~g.ok THEN "panic" ELSE IF g.ret THEN "returned" ELSE "active"
           /\ break_hit' = g.hit
           /\ printed' = IF g.hit \/ ~g.ok THEN printed
                         ELSE print_lines(tor_watch(tor_active', g.env, WATCHPOINT), printed)
    /\ UNCHANGED <<tor_fn, DEBUG_STATE, BREAKPOINT, WATCHPOINT>>
    /\ UNCHANGED <<cosimVars, hsVars, alignVars, stgVars, softVars, extVars>>

NextTor == TorCycle

(***************************************************************************)
(* Section 4.  ToR if-alignment (tor.rs).                                  *)
(*                                                                         *)
(* The time graph has one if region with two branches,                     *)
(*                                                                         *)
(*     IfStart:BeginIf -e0-> b0 nodes ... -> IfEnd                         *)
(*                     -e1-> b1 nodes ... -> IfEnd                         *)
(*                                                                         *)
(* each branch being its first edge followed by up to MaxPath body edges.  *)
(* The regions are not nested, so the search of get_latency never meets a  *)
(* BeginIf node.                                                           *)
(***************************************************************************)
\* most body edges of a branch
MaxPath == 2

IfStart == 0

IfEnd == 2 * MaxPath + 1

\* the edge types of the JSON description: "static", or "static:N"
EdgeKinds == {[edge_type |-> "static", n |-> 1]}
             \cup {[edge_type |-> "static:", n |-> n] : n \in 1..MaxLat}

\* the body edges a branch can have
BranchBodies == UNION {[1..k -> EdgeKinds] : k \in 0..MaxPath}

\* the node a branch reaches after j of its body edges; the branch lives on
\* the nodes base+1 .. base+Len(body)
branch_node(base, body, j) == IF j = Len(body) THEN IfEnd ELSE base + j + 1

\* the time graph of the region
if_region(first0, first1, body0, body1) ==
    [n \in 0..IfEnd |->
       IF n = IfStart
       THEN << [to |-> branch_node(0, body0, 0), edge_type |-> first0.edge_type,
                n |-> first0.n, stream |-> FALSE],
               [to |-> branch_node(MaxPath, body1, 0), edge_type |-> first1.edge_type,
                n |-> first1.n, stream |-> FALSE] >>
       ELSE IF n \in 1..Len(body0)
       THEN << [to |-> branch_node(0, body0, n), edge_type |-> body0[n].edge_type,
                n |-> body0[n].n, stream |-> FALSE] >>
       ELSE IF n \in (MaxPath + 1)..(MaxPath + Len(body1))
       THEN << [to |-> branch_node(MaxPath, body1, n - MaxPath),
                edge_type |-> body1[n - MaxPath].edge_type,
                n |-> body1[n - MaxPath].n, stream |-> FALSE] >>
       ELSE << >>]

\* the loop over the edges of one node in PipelineTimeGraph::get_latency:
\* found is the latency returned when an edge reaches end, else -1
RECURSIVE latency_edges(_, _, _, _, _)
latency_edges(edges, j, cur_dis, end, q) ==
    IF j > Len(edges) THEN q
    ELSE IF edges[j].to = end
    THEN [q EXCEPT !.found = get_latency(edges[j]) + cur_dis]
    ELSE IF q.dis[edges[j].to] = -1
    THEN latency_edges(edges, j + 1, cur_dis, end,
                       [q EXCEPT !.queue = Append(@, edges[j].to),
                                 !.dis[edges[j].to] = cur_dis + get_latency(edges[j])])
    ELSE latency_edges(edges, j + 1, cur_dis, end, q)

\* the while loop of PipelineTimeGraph::get_latency; -1 stands for the panic
\* "Latency Not Found"
RECURSIVE latency_search(_, _, _)
latency_search(graph, end, q) ==
    IF q.queue = << >> THEN -1
    ELSE LET cur == Head(q.queue)
         IN  Bind(latency_edges(graph[cur], 1, q.dis[cur], end,
                                [q EXCEPT !.queue = Tail(@)]),
                  LAMBDA q1 : IF q1.found # -1 THEN q1.found
                              ELSE latency_search(graph, end, q1))

\* PipelineTimeGraph::get_latency
path_latency(graph, start, end) ==
    IF start = end THEN 0
    ELSE latency_search(graph, end,
                        [queue |-> <<start>>, found |-> -1,
                         dis |-> [n \in 0..IfEnd |-> IF n = start THEN 0 ELSE -1]])

\* the rewrite of PipelineTimeGraph::get_aligned_latency: the first edge of
\* the shorter branch becomes "static:delta"
padding(graph, path0, path1) ==
    IF path0 > path1
    THEN IF Len(graph[IfStart]) > 1
         THEN [graph EXCEPT ![IfStart][2].edge_type = "static:",
                            ![IfStart][2].n = path0 - path1]
         ELSE graph
    ELSE IF path0 < path1
    THEN [graph EXCEPT ![IfStart][1].edge_type = "static:",
                       ![IfStart][1].n = path1 - path0]
    ELSE graph

\* PipelineTimeGraph::get_aligned_latency on the BeginIf node: the graph it
\* leaves (its result, the larger path, is not used by new)
get_aligned_latency(graph) ==
    LET path0 == path_latency(graph, graph[IfStart][1].to, IfEnd)
        path1 == IF Len(graph[IfStart]) = 1 THEN 0
                 ELSE path_latency(graph, graph[IfStart][2].to, IfEnd)
    IN  padding(graph, path0, path1)

\* the total edge latency of a branch from the BeginIf node to the if-end:
\* Edge::get_latency of its first edge and of every body edge
RECURSIVE branch_latency(_, _)
branch_latency(graph, n) ==
    IF n = IfEnd THEN 0
    ELSE get_latency(graph[n][1]) + branch_latency(graph, graph[n][1].to)

\* the total edge latency of the branch that starts with the b-th edge
total_edge_latency(graph, b) ==
    get_latency(graph[IfStart][b]) + branch_latency(graph, graph[IfStart][b].to)

\* PipelineTimeGraph::step_one_stage on a stage inside the region, cond
\* being the value of the if condition: the if-end node emits its yield, the
\* BeginIf node waits out its first edge and steps on, a Normal node
\* advances on its edge
RECURSIVE if_step_one_stage(_, _, _)
if_step_one_stage(graph, cur, cond) ==
    IF cur.node = IfEnd THEN [cur EXCEPT !.if_emitted = TRUE]
    ELSE IF cur.node = IfStart
    THEN LET edge == graph[IfStart][IF cond THEN 1 ELSE 2]
             st1 == [cur EXCEPT !.edge_cycle = @ + 1, !.iter_cycle = @ + 1]
         IN  IF edge.edge_type = "static" \/ st1.edge_cycle > get_latency(edge)
             THEN if_step_one_stage(graph, moved(st1, edge.to), cond)
             ELSE st1
    ELSE LET edge == graph[cur.node][1]
             st1 == [cur EXCEPT !.edge_cycle = @ + 1, !.iter_cycle = @ + 1]
         IN  IF cur.edge_cycle + 1 = get_latency(edge) THEN moved(st1, edge.to) ELSE st1

\* the number of cycles a stage takes from the BeginIf node until the if-end
\* node has emitted
RECURSIVE cycles_to_end(_, _, _)
cycles_to_end(graph, cur, cond) ==
    IF cur.node = IfEnd /\ cur.if_emitted THEN 0
    ELSE 1 + cycles_to_end(graph, if_step_one_stage(graph, cur, cond), cond)

\* the graphs that can be loaded
InitAlign ==
    /\ if_graph \in {if_region(first0, first1, body0, body1) :
                       first0 \in EdgeKinds, first1 \in EdgeKinds,
                       body0 \in BranchBodies, body1 \in BranchBodies}
    /\ if_pc = "loaded"

\* one graph with two equal branches
IdleAlign ==
    /\ if_graph = if_region([edge_type |-> "static", n |-> 1],
                            [edge_type |-> "static", n |-> 1], << >>, << >>)
    /\ if_pc = "loaded"

\* PipelineTimeGraph::new: every BeginIf node of the graph is aligned
Align ==
    /\ if_pc = "loaded"
    /\ if_graph' = get_aligned_latency(if_graph)
    /\ if_pc' = "aligned"
    /\ UNCHANGED <<cosimVars, hsVars, torVars, stgVars, softVars, dbgVars, extVars>>

NextAlign == Align

(***************************************************************************)
(* Section 5.  HEC static state-transition graphs (hec.rs).                *)
(*                                                                         *)
(* Two modules are loaded.  The called module "top" has the states         *)
(* t0 -> t1 -> t2, t0 holding a go of its instance "sub" and t2 being its  *)
(* done state; the module of "sub" has the states u0 -> u1, u1 being its   *)
(* done state.  The states have no jump, so a step follows the default     *)
(* transition.  Every state can hold an enable of the port r_en of the     *)
(* one FIFO, which puts that port in its streams[].  The module top has    *)
(* one primitive, the register reg0, which an assign of t1 writes.         *)
(***************************************************************************)
HecInsts == {"top", "sub"}

HecStates == {"t0", "t1", "t2", "u0", "u1"}

\* STG::_init_state of the two modules
init_state == [top |-> "t0", sub |-> "u0"]

\* STG::stg of the two modules
stg(mod) ==
    [top |-> [t0 |-> [go |-> "sub", assign |-> FALSE, streams |-> mod["t0"],
                      default |-> "t1", done |-> FALSE],
              t1 |-> [go |-> "none", assign |-> TRUE, streams |-> mod["t1"],
                      default |-> "t2", done |-> FALSE],
              t2 |-> [go |-> "none", assign |-> FALSE, streams |-> mod["t2"],
                      default |-> "none", done |-> TRUE]],
     sub |-> [u0 |-> [go |-> "none", assign |-> FALSE, streams |-> mod["u0"],
                      default |-> "u1", done |-> FALSE],
              u1 |-> [go |-> "none", assign |-> FALSE, streams |-> mod["u1"],
                      default |-> "none", done |-> TRUE]]]

\* the register reg0 after UnitEnv::new: a ValueTiming of depth 1
reg_new == [queue |-> ERROR, new_value |-> ERROR]

\* UnitEnv::update of a register: the written value moves to the front of
\* the queue; without a written value the register keeps its queue
UnitEnv_update(reg) ==
    IF reg.new_value = ERROR THEN reg
    ELSE [queue |-> reg.new_value, new_value |-> ERROR]

\* State::check_stream: the read enable of an empty FIFO is not ready
State_check_stream(state, empty) == ~(state.streams /\ empty)

\* STG::check_stream
STG_check_stream(mod, h, i, empty) ==
    LET state == stg(mod)[i][h.insts[i].state]
    IN  IF state.done THEN TRUE ELSE State_check_stream(state, empty)

\* STG::step; ret is its result
RECURSIVE STG_step(_, _, _)
STG_step(h, mod, i) ==
    LET state == stg(mod)[i][h.insts[i].state]
        h0 == [h EXCEPT !.done = @ \ {i}]
    IN  IF state.done
        THEN [h0 EXCEPT !.done = @ \cup {i}, !.insts[i].state = init_state[i], !.ret = FALSE]
        ELSE LET h1 == IF state.go # "none" /\ ~h0.insts[state.go].active
                       THEN Bind(STG_step([h0 EXCEPT !.insts[state.go].active = TRUE],
                                          mod, state.go),
                                 LAMBDA g : [g EXCEPT !.active = Append(@, state.go)])
                       ELSE h0
             IN  [h1 EXCEPT !.reg.new_value = IF state.assign THEN U32(1) ELSE @,
                            !.insts[i].state = IF state.default # "none" THEN state.default
                                               ELSE @,
                            !.ret = TRUE]

\* Instance::step of a static instance
Instance_step(h, mod, i, empty) ==
    IF STG_check_stream(mod, h, i, empty)
    THEN Bind(STG_step([h EXCEPT !.insts[i].stall = FALSE], mod, i),
              LAMBDA h1 : IF h1.ret THEN h1 ELSE [h1 EXCEPT !.insts[i].active = FALSE])
    ELSE [h EXCEPT !.done = @ \ {i}, !.insts[i].stall = TRUE, !.ret = TRUE]

\* the loop of hec::step over the drained ACTIVE list: an instance whose
\* step is true is pushed back
RECURSIVE step_old_active(_, _, _, _)
step_old_active(h, mod, old_active, empty) ==
    IF old_active = << >> THEN h
    ELSE Bind(Instance_step(h, mod, Head(old_active), empty),
              LAMBDA h1 : step_old_active(
                  IF h1.ret THEN [h1 EXCEPT !.active = Append(@, Head(old_active))] ELSE h1,
                  mod, Tail(old_active), empty))

\* the end of a cycle of hec::step for the primitives of top: updated if
\* top has stepped and stays active, cleared if top has finished
hec_update(h, old_active) ==
    IF \A k \in 1..Len(old_active) : old_active[k] # "top" THEN h
    ELSE IF \E k \in 1..Len(h.active) : h.active[k] = "top"
    THEN IF h.insts["top"].stall THEN h ELSE [h EXCEPT !.reg = UnitEnv_update(@)]
    ELSE [h EXCEPT !.reg = reg_new]

\* Instance::mark of the instances of the ACTIVE list
hec_mark(h, active, bps) == \E k \in 1..Len(active) : h.insts[active[k]].state \in bps

\* one cycle of hec::step: the breakpoint test, the steps of the drained
\* ACTIVE list, the updates
hec_cycle(h, mod, old_active, empty, breakpoint, bps) ==
    IF breakpoint /\ hec_mark(h, old_active, bps)
    THEN [h EXCEPT !.hit = TRUE, !.active = old_active]
    ELSE Bind(step_old_active(h, mod, old_active, empty),
              LAMBDA h1 : hec_update(h1, old_active))

\* the watchpoint lines of hec::step: StaticEnv::print of the active
\* instances shows the watched primitives that have a value
hec_watch(active, reg, wps) ==
    IF /\ \E k \in 1..Len(active) : active[k] = "top"
       /\ "reg0" \in wps
       /\ reg.queue # ERROR
    THEN {<<"reg0", 1, as_u32(reg.queue)>>}
    ELSE {}

\* the modules that can be loaded, after call_function of "top"
InitStg ==
    /\ hec_mod \in [HecStates -> BOOLEAN]
    /\ insts = [i \in HecInsts |-> [state |-> init_state[i], active |-> i = "top",
                                    stall |-> FALSE]]
    /\ hec_ACTIVE = <<"top">>
    /\ done_asserted = {}
    /\ fifo_empty \in BOOLEAN
    /\ hec_reg = reg_new

\* the HEC engine with modules that never read the FIFO
IdleStg ==
    /\ hec_mod = [x \in HecStates |-> FALSE]
    /\ insts = [i \in HecInsts |-> [state |-> init_state[i], active |-> i = "top",
                                    stall |-> FALSE]]
    /\ hec_ACTIVE = <<"top">>
    /\ done_asserted = {}
    /\ fifo_empty = TRUE
    /\ hec_reg = reg_new

\* one cycle of hec::step(depth, breakpoint); the FIFO update at its end
\* leaves the FIFO empty or not, depending on what the other side has pushed
HecCycle ==
    /\ hec_ACTIVE # << >>
    /\ \E breakpoint \in BOOLEAN :
         \E h \in {hec_cycle([insts |-> insts, active |-> << >>, done |-> {},
                              reg |-> hec_reg, ret |-> TRUE, hit |-> FALSE],
                             hec_mod, hec_ACTIVE, fifo_empty, breakpoint, BREAKPOINT)} :
           /\ insts' = h.insts
           /\ hec_ACTIVE' = h.active
           /\ hec_reg' = h.reg
           /\ break_hit' = h.hit
           /\ done_asserted' = IF h.hit THEN done_asserted ELSE h.done
           /\ fifo_empty' \in (IF h.hit THEN {fifo_empty} ELSE BOOLEAN)
           /\ printed' = IF h.hit THEN printed
                         ELSE print_lines(hec_watch(h.active, h.reg, WATCHPOINT), printed)
    /\ UNCHANGED <<hec_mod, DEBUG_STATE, BREAKPOINT, WATCHPOINT>>
    /\ UNCHANGED <<cosimVars, hsVars, torVars, alignVars, softVars, extVars>>

NextStg == HecCycle

(***************************************************************************)
(* Section 6.  The software engine and the debugger (software.rs,          *)
(* common.rs).                                                             *)
(*                                                                         *)
(* The called function has the argument a and the body                     *)
(*     x = a + 1;  y = x + x;  return y                                    *)
(* The debugger sends its commands to the engine named by DEBUG_STATE.     *)
(***************************************************************************)
\* Function::ops of the called function
soft_ops == << [kind |-> "Compute", name |-> "x"], [kind |-> "Compute", name |-> "y"],
               [kind |-> "Return", name |-> "y"] >>

\* set_value on the variable map
soft_set_value(values, var, value) ==
    [v \in DOMAIN values \cup {var} |-> IF v = var THEN value ELSE values[v]]

\* Controller::drop of a function: drop_value for the result of every
\* Compute of its body
Controller_drop(values) ==
    [v \in DOMAIN values \ {soft_ops[k].name : k \in {j \in 1..Len(soft_ops) :
                                               soft_ops[j].kind = "Compute"}} |-> values[v]]

\* Controller::mark of a function: Operation::mark of its current operation
Controller_mark(top, bps) ==
    soft_ops[top.op_now + 1].kind = "Compute" /\ soft_ops[top.op_now + 1].name \in bps

\* the rest of a cycle of software::step once top is popped: Controller::step
\* and the handling of its result
soft_eval(s, top) ==
    LET op == soft_ops[top.op_now + 1]
        rest == SubSeq(s.stack, 1, Len(s.stack) - 1)
    IN  IF op.kind = "Return"
        THEN [s EXCEPT !.stack = rest, !.values = Controller_drop(@)]
        ELSE [s EXCEPT
                !.stack = Append(rest, [top EXCEPT !.op_now = @ + 1]),
                !.values = soft_set_value(@, op.name,
                               IF op.name = "x" THEN s.values["a"] + 1
                               ELSE s.values["x"] + s.values["x"])]

\* one cycle of software::step: the breakpoint test on the popped
\* controller, which is pushed back on a hit, then its evaluation
soft_cycle(s, breakpoint, bps) ==
    LET top == s.stack[Len(s.stack)]
    IN  IF breakpoint /\ Controller_mark(top, bps) THEN [s EXCEPT !.hit = TRUE]
        ELSE soft_eval(s, top)

\* the watchpoint lines of software::step
soft_watch(values, wps) == {<<var, 0, values[var]>> : var \in wps \cap DOMAIN values}

\* the software engine after call_function
InitSoft ==
    /\ OPERATION_STACK = << [kind |-> "Function", op_now |-> 0] >>
    /\ \E a \in 0..1 : VARIABLE_VALUE = [v \in {"a"} |-> a]

\* the software engine after call_function with the argument 1
IdleSoft ==
    /\ OPERATION_STACK = << [kind |-> "Function", op_now |-> 0] >>
    /\ VARIABLE_VALUE = [v \in {"a"} |-> 1]

\* one cycle of software::step(depth, breakpoint)
SoftStep ==
    /\ OPERATION_STACK # << >>
    /\ \E breakpoint \in BOOLEAN :
         \E s \in {soft_cycle([stack |-> OPERATION_STACK, values |-> VARIABLE_VALUE,
                               hit |-> FALSE], breakpoint, BREAKPOINT)} :
           /\ OPERATION_STACK' = s.stack
           /\ VARIABLE_VALUE' = s.values
           /\ break_hit' = s.hit
           /\ printed' = IF s.hit THEN printed
                         ELSE print_lines(soft_watch(s.values, WATCHPOINT), printed)
    /\ UNCHANGED <<DEBUG_STATE, BREAKPOINT, WATCHPOINT>>
    /\ UNCHANGED <<cosimVars, hsVars, torVars, alignVars, stgVars, extVars>>

\* the names that can carry a breakpoint: operations of the software
\* function, operation and loop result of the ToR function, HEC states
BpNames == {"x", "y", "t", "r", "t1", "u1"}

\* the names that can be watched
WatchNames == {"y", "t", "reg0"}

\* the debugger after the load of a file and some breakpoint and watch
\* commands
InitDbg ==
    /\ DEBUG_STATE \in {"Software", "ToR", "HEC"}
    /\ BREAKPOINT \in {{}} \cup {{b} : b \in BpNames}
    /\ WATCHPOINT \in SUBSET WatchNames
    /\ break_hit = FALSE
    /\ printed = {}

\* the debugger without breakpoints and watchpoints
IdleDbg ==
    /\ DEBUG_STATE = "Software"
    /\ BREAKPOINT = {}
    /\ WATCHPOINT = {}
    /\ break_hit = FALSE
    /\ printed = {}

\* step and continue go to the engine of DEBUG_STATE
NextDbg ==
    \/ DEBUG_STATE = "Software" /\ SoftStep
    \/ DEBUG_STATE = "ToR" /\ TorCycle
    \/ DEBUG_STATE = "HEC" /\ HecCycle

(***************************************************************************)
(* Section 7.  step(N) of the engines (tor.rs, hec.rs, software.rs,        *)
(* common.rs).                                                             *)
(*                                                                         *)
(* A call of step runs the cycles of sections 3, 5 and 6 in a loop of at   *)
(* most depth rounds.  The inputs of a call are its depth, its breakpoint  *)
(* flag and, for every cycle, whether the stream of the ToR function is    *)
(* ready and whether the FIFO of the HEC modules is left empty.            *)
(***************************************************************************)
\* most cycles asked of one call of step
MaxDepth == 3

\* a loop of step that stops one round early
step_done_early(cycle, depth) == cycle + 1 >= depth

\* the loop condition of step: `while cycle < depth`, `for _ in 0..depth`
step_done(cycle, depth) == cycle >= depth

\* tor::step from the round r.cycle on: an empty ACTIVE list and a marked
\* instance return at once
RECURSIVE tor_step(_, _, _, _, _, _)
tor_step(r, fn, depth, breakpoint, dbg, ready) ==
    IF step_done(r.cycle, depth) \/ r.g.ret \/ ~r.g.ok THEN r
    ELSE Bind(tor_cycle(r.g, fn, breakpoint, dbg.bps, ready[r.cycle + 1]), LAMBDA g1 :
           IF g1.hit THEN [r EXCEPT !.g = g1]
           ELSE tor_step([g |-> g1, cycle |-> r.cycle + 1,
                          printed |-> IF ~g1.ok THEN r.printed
                                      ELSE print_lines(
                                             tor_watch(IF g1.ret THEN "returned" ELSE "active",
                                                       g1.env, dbg.wps), r.printed)],
                         fn, depth, breakpoint, dbg, ready))

\* hec::step of the static modules from the round r.cycle on
RECURSIVE hec_step(_, _, _, _, _, _)
hec_step(r, mod, depth, breakpoint, dbg, empties) ==
    IF step_done(r.cycle, depth) \/ r.h.active = << >> THEN r
    ELSE Bind(hec_cycle([r.h EXCEPT !.active = << >>, !.done = {}, !.ret = TRUE],
                        mod, r.h.active, r.empty, breakpoint, dbg.bps), LAMBDA h1 :
           IF h1.hit THEN [r EXCEPT !.h.hit = TRUE]
           ELSE hec_step([h |-> h1, cycle |-> r.cycle + 1, empty |-> empties[r.cycle + 1],
                          printed |-> print_lines(hec_watch(h1.active, h1.reg, dbg.wps),
                                                  r.printed)],
                         mod, depth, breakpoint, dbg, empties))

\* software::step from the round r.cycle on
RECURSIVE soft_step(_, _, _, _)
soft_step(r, depth, breakpoint, dbg) ==
    IF step_done(r.cycle, depth) \/ r.s.stack = << >> THEN r
    ELSE Bind(soft_cycle(r.s, breakpoint, dbg.bps), LAMBDA s1 :
           IF s1.hit THEN [r EXCEPT !.s = s1]
           ELSE soft_step([s |-> s1, cycle |-> r.cycle + 1,
                           printed |-> print_lines(soft_watch(s1.values, dbg.wps),
                                                   r.printed)],
                          depth, breakpoint, dbg))

\* the breakpoints and watchpoints of the debugger
dbg_now == [bps |-> BREAKPOINT, wps |-> WATCHPOINT]

\* no call of step has been made
InitStep == step_depth = 0 /\ step_cycle = 0

\* tor::step(depth, breakpoint)
TorStep ==
    /\ tor_active # "panic"
    /\ \E depth \in 1..MaxDepth, breakpoint \in BOOLEAN, ready \in [1..MaxDepth -> BOOLEAN] :
         \E r \in {tor_step([g |-> [pipe_now EXCEPT !.ret = tor_active # "active"],
                             cycle |-> 0, printed |-> printed],
                            tor_fn, depth, breakpoint, dbg_now, ready)} :
           /\ stages' = r.g.stages
           /\ tor_env' = r.g.env
           /\ finish' = r.g.finish
           /\ for_id' = r.g.for_id
           /\ tor_active' = IF ~r.g.ok THEN "panic"
                            ELSE IF r.g.ret THEN "returned" ELSE "active"
           /\ break_hit' = r.g.hit
           /\ printed' = r.printed
           /\ step_depth' = depth
           /\ step_cycle' = r.cycle
    /\ UNCHANGED <<tor_fn, DEBUG_STATE, BREAKPOINT, WATCHPOINT>>
    /\ UNCHANGED <<cosimVars, hsVars, alignVars, stgVars, softVars, loadVars, dutVars, memVars, modVars, runVars, walkVars, lateVars>>

\* hec::step(depth, breakpoint) of the static modules
HecStep ==
    \E depth \in 1..MaxDepth, breakpoint \in BOOLEAN, empties \in [1..MaxDepth -> BOOLEAN] :
      \E r \in {hec_step([h |-> [insts |-> insts, active |-> hec_ACTIVE,
                                 done |-> done_asserted, reg |-> hec_reg, ret |-> TRUE,
                                 hit |-> FALSE],
                          cycle |-> 0, empty |-> fifo_empty, printed |-> printed],
                         hec_mod, depth, breakpoint, dbg_now, empties)} :
        /\ insts' = r.h.insts
        /\ hec_ACTIVE' = r.h.active
        /\ hec_reg' = r.h.reg
        /\ done_asserted' = r.h.done
        /\ fifo_empty' = r.empty
        /\ break_hit' = r.h.hit
        /\ printed' = r.printed
        /\ step_depth' = depth
        /\ step_cycle' = r.cycle
        /\ UNCHANGED <<hec_mod, DEBUG_STATE, BREAKPOINT, WATCHPOINT>>
        /\ UNCHANGED <<cosimVars, hsVars, torVars, alignVars, softVars, loadVars, dutVars, memVars, modVars, runVars, walkVars, lateVars>>

\* software::step(depth, breakpoint)
SoftwareStep ==
    \E depth \in 1..MaxDepth, breakpoint \in BOOLEAN :
      \E r \in {soft_step([s |-> [stack |-> OPERATION_STACK, values |-> VARIABLE_VALUE,
                                  hit |-> FALSE],
                           cycle |-> 0, printed |-> printed],
                          depth, breakpoint, dbg_now)} :
        /\ OPERATION_STACK' = r.s.stack
        /\ VARIABLE_VALUE' = r.s.values
        /\ break_hit' = r.s.hit
        /\ printed' = r.printed
        /\ step_depth' = depth
        /\ step_cycle' = r.cycle
        /\ UNCHANGED <<DEBUG_STATE, BREAKPOINT, WATCHPOINT>>
        /\ UNCHANGED <<cosimVars, hsVars, torVars, alignVars, stgVars, loadVars, dutVars, memVars, modVars, runVars, walkVars, lateVars>>

\* step and continue of common.rs go to the engine of DEBUG_STATE
NextStep ==
    \/ DEBUG_STATE = "Software" /\ SoftwareStep
    \/ DEBUG_STATE = "ToR" /\ TorStep
    \/ DEBUG_STATE = "HEC" /\ HecStep

(***************************************************************************)
(* Section 8.  The load command (common.rs, main.rs).                      *)
(*                                                                         *)
(* A file is well-formed JSON or not, names a level in its "level" field   *)
(* or has no such field, and has every field that the parser of its level  *)
(* unwraps or lacks one.                                                   *)
(***************************************************************************)
Levels == {"software", "tor", "hec"}

\* the files that a load command can name
LoadFiles == [json : BOOLEAN, level : Levels \cup {"rtl", "missing"}, complete : BOOLEAN,
              id : 1..2]

\* before the first load command
NoFile == [json |-> FALSE, level |-> "missing", complete |-> FALSE, id |-> 0]

\* the State that parse_file selects for a level
level_state == [software |-> "Software", tor |-> "ToR", hec |-> "HEC"]

\* parse_software, parse_tor, parse_hec: init_global of the tables of the
\* level, then the fill from the file, which panics at a missing field
parse_level(s, file) ==
    LET s1 == [s EXCEPT !.tables[file.level] = 0,
                        !.stack = IF file.level = "software" THEN << >> ELSE @,
                        !.values = IF file.level = "software" THEN [v \in {} |-> 0] ELSE @,
                        !.tor_active = IF file.level = "tor" THEN "returned" ELSE @,
                        !.hec_active = IF file.level = "hec" THEN << >> ELSE @]
    IN  IF file.complete
        THEN [s1 EXCEPT !.tables[file.level] = file.id, !.report = "none"]
        ELSE [s1 EXCEPT !.report = "panic"]

\* parse_file and the load command of execute_command: an Err is shown as
\* "!!Failed to load file", a panic ends the process, Ok shows nothing
parse_file(s, file) ==
    IF ~file.json THEN [s EXCEPT !.report = "failed"]
    ELSE IF file.level = "missing" THEN [s EXCEPT !.report = "panic"]
    ELSE IF file.level \notin Levels THEN [s EXCEPT !.report = "none"]
    ELSE parse_level([s EXCEPT !.has[file.level] = TRUE, !.state = level_state[file.level]],
                     file)

\* the debugger at its start
InitLoad ==
    /\ HAS = [l \in Levels |-> FALSE]
    /\ TABLES = [l \in Levels |-> 0]
    /\ load_file = NoFile
    /\ load_report = "none"

\* the command load
Load ==
    /\ load_report # "panic"
    /\ \E file \in LoadFiles :
         \E s \in {parse_file([state |-> DEBUG_STATE, has |-> HAS, tables |-> TABLES,
                               stack |-> OPERATION_STACK, values |-> VARIABLE_VALUE,
                               tor_active |-> tor_active, hec_active |-> hec_ACTIVE,
                               report |-> "none"], file)} :
           /\ DEBUG_STATE' = s.state
           /\ HAS' = s.has
           /\ TABLES' = s.tables
           /\ OPERATION_STACK' = s.stack
           /\ VARIABLE_VALUE' = s.values
           /\ tor_active' = s.tor_active
           /\ hec_ACTIVE' = s.hec_active
           /\ load_report' = s.report
           /\ load_file' = file
    /\ UNCHANGED <<BREAKPOINT, WATCHPOINT, break_hit, printed>>
    /\ UNCHANGED <<stages, tor_env, finish, for_id, tor_fn>>
    /\ UNCHANGED <<insts, done_asserted, fifo_empty, hec_mod, hec_reg>>
    /\ UNCHANGED <<cosimVars, hsVars, alignVars, stepVars, dutVars, memVars, modVars, runVars, walkVars, lateVars>>

NextLoad == Load

(***************************************************************************)
(* Section 9.  One handshake primitive on its own (elastic.rs).            *)
(*                                                                         *)
(* The unit is a Fork(2), an ElasticBuffer or an ElasticFIFO.  Its         *)
(* neighbours are the inputs: they set valid and data on the ports it      *)
(* consumes and ready on the ports it produces, then the unit is           *)
(* propagated any number of times and updated, as HandshakeEnv does in one *)
(* cycle.                                                                  *)
(***************************************************************************)
\* the ports on which the unit consumes tokens
dut_inputs(u) == {"data_in"}

\* the ports on which the unit produces tokens
dut_outputs(u) == IF u.kind = "fork" THEN {ForkOut[i] : i \in 1..2} ELSE {"data_out"}

\* the tokens that a neighbour can offer
DutData == {U32(1), U32(2)}

\* SetValue::set_value on every port, with the valid bits v and the data of
\* the producers and the ready bits r of the consumers
drive(u, v, data, r) ==
    [u EXCEPT !.p = [name \in DOMAIN u.p |->
                       IF name \in dut_inputs(u) THEN hv_set_valid(u.p[name], v[name], data)
                       ELSE hv_set_ready(u.p[name], r[name])]]

\* the units as HandshakeEnv::new builds them
InitDut ==
    /\ dut \in {Fork_set, ElasticBuffer_set, ElasticFIFO_set}
    /\ dut_pc = "set"

\* the Fork(2) as built
IdleDut ==
    /\ dut = Fork_set
    /\ dut_pc = "set"

\* the neighbours set the ports of the unit at the start of a cycle
Drive ==
    /\ dut_pc \in {"set", "updated"}
    /\ \E v \in [dut_inputs(dut) -> BOOLEAN], data \in DutData,
          r \in [dut_outputs(dut) -> BOOLEAN] :
         dut' = drive(dut, v, data, r)
    /\ dut_pc' = "driven"
    /\ UNCHANGED <<cosimVars, hsVars, torVars, alignVars, stgVars, softVars, dbgVars>>
    /\ UNCHANGED <<stepVars, loadVars, memVars, modVars, runVars, walkVars, lateVars>>

\* IsHandshake::propagate of the unit
Propagate ==
    /\ dut_pc \in {"driven", "propagated"}
    /\ \E r \in {unit_propagate(dut)} :
         /\ dut' = r.u
         /\ dut_pc' = IF r.ok THEN "propagated" ELSE "panic"
    /\ UNCHANGED <<cosimVars, hsVars, torVars, alignVars, stgVars, softVars, dbgVars>>
    /\ UNCHANGED <<stepVars, loadVars, memVars, modVars, runVars, walkVars, lateVars>>

\* IsHandshake::update of the unit
UpdateDut ==
    /\ dut_pc = "propagated"
    /\ dut' = unit_update(dut)
    /\ dut_pc' = "updated"
    /\ UNCHANGED <<cosimVars, hsVars, torVars, alignVars, stgVars, softVars, dbgVars>>
    /\ UNCHANGED <<stepVars, loadVars, memVars, modVars, runVars, walkVars, lateVars>>

NextDut == Drive \/ Propagate \/ UpdateDut

(***************************************************************************)
(* Section 10.  DynMem(loads = 2, stores = 0, size = 4) on its own         *)
(* (elastic.rs).                                                           *)
(*                                                                         *)
(* The memory holds [10, 20, 30, 40].  The producer of a load port offers  *)
(* its address until the port has been valid and ready in one cycle.       *)
(***************************************************************************)
I32(n) == <<"i32", n>>

U64(n) == <<"u64", n>>

\* VALUE::as_u64 of an integer, a Bool or ERROR
as_u64(v) == v[2]

\* the value of arb_out_valid when no load port is selected
NoPort == 100000000

\* the value that DynMem::set gives to arb_out_valid
NoPortAtSet == 10000000

\* most cycles of a run of the DynMem
MaxCycles == 4

LoadAddress == <<"load_address.0", "load_address.1">>

LoadData == <<"load_data.0", "load_data.1">>

\* TEHB::new
TEHB_new == [data_in |-> hv_empty, data_out |-> hv_empty, full_reg |-> Reg_new,
             data_reg |-> Reg_new]

\* DynMem::set(2, 0, 4, "i32") followed by set_mem
DynMem_set ==
    [kind |-> "dynmem",
     p |-> [name \in {LoadAddress[i] : i \in 1..2} \cup {LoadData[i] : i \in 1..2} |-> hv_empty],
     mem |-> <<I32(10), I32(20), I32(30), I32(40)>>,
     buffer |-> [i \in 1..2 |-> TEHB_new],
     arb_out_valid |-> Reg_init(U64(NoPortAtSet)),
     address |-> Reg_new]

\* an arbiter that selects the last valid request
position_last(valids) ==
    IF \E i \in 1..Len(valids) : valids[i]
    THEN CHOOSE i \in 1..Len(valids) : valids[i] /\ \A j \in (i + 1)..Len(valids) : ~valids[j]
    ELSE 0

\* Iterator::position: the first valid request, 0 for None
position(valids) ==
    IF \E i \in 1..Len(valids) : valids[i]
    THEN CHOOSE i \in 1..Len(valids) : valids[i] /\ \A j \in 1..(i - 1) : ~valids[j]
    ELSE 0

\* DynMem::propagate: the TEHB of load port i is given the readiness of the
\* consumer and the word selected in the last cycle and is propagated if one
\* of them changed
DynMem_buffer(u, i) ==
    LET new_valid == as_u64(u.arb_out_valid.value) = i - 1
        new_data == IF new_valid THEN u.mem[as_u64(u.address.value) + 1] ELSE ERROR
        b == u.buffer[i]
        touched == \/ hv_ready_changed(b.data_out, u.p[LoadData[i]].ready)
                   \/ hv_valid_changed(b.data_in, new_valid, new_data)
        b1 == [b EXCEPT !.data_out = hv_set_ready(@, u.p[LoadData[i]].ready),
                        !.data_in = hv_set_valid(@, new_valid, new_data)]
    IN  IF touched THEN TEHB_propagate(b1) ELSE b1

\* DynMem::propagate with no store port
DynMem_propagate(u) ==
    LET arb_in_valid == [i \in 1..2 |-> /\ ~as_bool(u.buffer[i].full_reg.value)
                                        /\ u.p[LoadAddress[i]].valid]
        arb_out_valid == position(arb_in_valid)
        buffer == [i \in 1..2 |-> DynMem_buffer(u, i)]
        ready(i) == (\A j \in 1..(i - 1) : ~arb_in_valid[j]) /\ buffer[i].data_in.ready
        data_ch[i \in 0..2] ==
            IF i = 0 THEN << >>
            ELSE data_ch[i - 1]
                 \o port_if(hv_valid_changed(u.p[LoadData[i]], buffer[i].data_out.valid,
                                             buffer[i].data_out.data), LoadData[i])
        addr_ch[i \in 0..2] ==
            IF i = 0 THEN << >>
            ELSE addr_ch[i - 1]
                 \o port_if(hv_ready_changed(u.p[LoadAddress[i]], ready(i)), LoadAddress[i])
    IN  prop_result(
          [u EXCEPT
             !.buffer = buffer,
             !.p = [name \in DOMAIN u.p |->
                      IF \E i \in 1..2 : LoadData[i] = name
                      THEN LET i == CHOOSE j \in 1..2 : LoadData[j] = name
                           IN  hv_set_valid(u.p[name], buffer[i].data_out.valid,
                                            buffer[i].data_out.data)
                      ELSE LET i == CHOOSE j \in 1..2 : LoadAddress[j] = name
                           IN  hv_set_ready(u.p[name], ready(i))],
             !.arb_out_valid = Reg_set_value(@, IF arb_out_valid = 0 THEN U64(NoPort)
                                                ELSE U64(arb_out_valid - 1)),
             !.address = IF arb_out_valid = 0 THEN @
                         ELSE Reg_set_value(@, u.p[LoadAddress[arb_out_valid]].data)],
          data_ch[2] \o addr_ch[2],
          TRUE)

\* DynMem::update with w_en false
DynMem_update(u) ==
    [u EXCEPT !.buffer = [i \in 1..2 |-> EHB_update(u.buffer[i])],
              !.address = Reg_update(@),
              !.arb_out_valid = Reg_update(@)]

\* the addresses that can be issued to a load port; -1 is no address
Addresses == {-1} \cup 0..3

\* the DynMem as built, with the addresses issued in the first cycle
InitMem ==
    /\ dynmem = DynMem_set
    /\ dm_pc = "set"
    /\ \E issue \in [1..2 -> Addresses], ready \in [1..2 -> BOOLEAN] :
         dm_test = [issue |-> issue, ready |-> ready, pending |-> issue, cycle |-> 0]

\* the DynMem as built, with the addresses 3 and 1 issued to ready consumers
IdleMem ==
    /\ dynmem = DynMem_set
    /\ dm_pc = "set"
    /\ dm_test = [issue |-> <<3, 1>>, ready |-> <<TRUE, TRUE>>, pending |-> <<3, 1>>,
                  cycle |-> 0]

\* the neighbours set the ports at the start of a cycle
MemDrive ==
    /\ dm_pc \in {"set", "updated"}
    /\ dm_test.cycle < MaxCycles
    /\ dynmem' = [dynmem EXCEPT !.p = [name \in DOMAIN dynmem.p |->
         IF \E i \in 1..2 : LoadData[i] = name
         THEN LET i == CHOOSE j \in 1..2 : LoadData[j] = name
              IN  hv_set_ready(dynmem.p[name], dm_test.ready[i])
         ELSE LET i == CHOOSE j \in 1..2 : LoadAddress[j] = name
              IN  IF dm_test.pending[i] = -1
                  THEN hv_set_valid(dynmem.p[name], FALSE, dynmem.p[name].data)
                  ELSE hv_set_valid(dynmem.p[name], TRUE, U32(dm_test.pending[i]))]]
    /\ dm_pc' = "driven"
    /\ dm_test' = [dm_test EXCEPT !.cycle = @ + 1]
    /\ UNCHANGED <<cosimVars, hsVars, torVars, alignVars, stgVars, softVars, dbgVars>>
    /\ UNCHANGED <<stepVars, loadVars, dutVars, modVars, runVars, walkVars, lateVars>>

\* DynMem::propagate
MemPropagate ==
    /\ dm_pc \in {"driven", "propagated"}
    /\ dynmem' = DynMem_propagate(dynmem).u
    /\ dm_pc' = "propagated"
    /\ UNCHANGED dm_test
    /\ UNCHANGED <<cosimVars, hsVars, torVars, alignVars, stgVars, softVars, dbgVars>>
    /\ UNCHANGED <<stepVars, loadVars, dutVars, modVars, runVars, walkVars, lateVars>>

\* DynMem::update; an address that was valid and ready is taken
MemUpdate ==
    /\ dm_pc = "propagated"
    /\ dynmem' = DynMem_update(dynmem)
    /\ dm_pc' = "updated"
    /\ dm_test' = [dm_test EXCEPT !.pending = [i \in 1..2 |->
                     IF dynmem.p[LoadAddress[i]].valid /\ dynmem.p[LoadAddress[i]].ready
                     THEN -1 ELSE dm_test.pending[i]]]
    /\ UNCHANGED <<cosimVars, hsVars, torVars, alignVars, stgVars, softVars, dbgVars>>
    /\ UNCHANGED <<stepVars, loadVars, dutVars, modVars, runVars, walkVars, lateVars>>

NextMem == MemDrive \/ MemPropagate \/ MemUpdate

(***************************************************************************)
(* Section 11.  step(N) of a Handshake module (hec.rs).                    *)
(*                                                                         *)
(* The network is the one of section 2.  A call runs whole cycles:         *)
(* HandshakeEnv::propagate to the end of its work-list, then               *)
(* HandshakeEnv::update.                                                   *)
(***************************************************************************)
\* most calls of step in a run
MaxSteps == 2

\* SetValue::is_valid, as derived: a HandshakeValue field of the unit is valid
is_valid(u) == \E name \in DOMAIN u.p : u.p[name].valid

\* the handshake branch of hec::step from the round cycle on: the unit scan
\* is made after every round but the last
RECURSIVE handshake_step(_, _, _, _)
handshake_step(h, order, cycle, depth) ==
    IF step_done(cycle, depth) THEN [h |-> h, cycle |-> cycle, count |-> -1]
    ELSE Bind(drain(h, DrainFuel), LAMBDA h1 :
           IF ~h1.ok THEN [h |-> h1, cycle |-> cycle, count |-> -1]
           ELSE Bind(update_units(h1, order), LAMBDA h2 :
                  IF cycle < depth - 1 /\ \A n \in Units : ~is_valid(h2.env[n])
                  THEN [h |-> h2, cycle |-> cycle + 1, count |-> cycle]
                  ELSE handshake_step(h2, order, cycle + 1, depth)))

\* no call of step has been made
InitRun == hs_steps = 0 /\ hs_report = -1

\* hec::step(depth, breakpoint) of a Handshake module
HandshakeStep ==
    /\ hs_pc = "idle"
    /\ hs_steps < MaxSteps
    /\ \E depth \in 1..MaxDepth :
         \E r \in {handshake_step(hs_now, key_order, 0, depth)} :
           /\ hs_becomes(r.h)
           /\ hs_pc' = IF r.h.ok THEN "idle" ELSE "panic"
           /\ hs_report' = r.count
           /\ step_depth' = depth
           /\ step_cycle' = r.cycle
    /\ hs_steps' = hs_steps + 1
    /\ UNCHANGED key_order
    /\ UNCHANGED <<cosimVars, torVars, alignVars, stgVars, softVars, dbgVars>>
    /\ UNCHANGED <<loadVars, dutVars, memVars, modVars, walkVars, lateVars>>

NextRun == Valid \/ Invalid \/ Ready \/ HandshakeStep

(***************************************************************************)
(* Section 12.  The controllers of the software engine (software.rs).      *)
(*                                                                         *)
(* The loaded file has two functions over one flat variable map:           *)
(*     main(n, s, k):  r = call sum(n, s, k);  w = r + r;  return w        *)
(*     sum(ub, st, k): z = 0                                               *)
(*                     acc = for i = z to ub step st iter_args(a = z) {    *)
(*                         t = a + i;  c = k < t                           *)
(*                         if c { return t } else { yield }                *)
(*                         yield t }                                       *)
(*                     return acc                                          *)
(* A panic of the engine ends the run: the panicking cycle has no          *)
(* successor state.                                                        *)
(***************************************************************************)
\* boolean_operation!(cmp_lt): operands of one unsigned type compare, any
\* other pair gives ERROR
cmp_lt(values) ==
    IF get_type(values[1]) = "u32" /\ get_type(values[2]) = "u32"
    THEN Bool(as_u32(values[1]) < as_u32(values[2]))
    ELSE ERROR

\* the body of the loop of sum
for_body ==
    << [kind |-> "Compute", name |-> "t", op_type |-> "add", ret_type |-> "u32",
        operands |-> <<"a", "i">>],
       [kind |-> "Compute", name |-> "c", op_type |-> "cmp_lt", ret_type |-> "bool",
        operands |-> <<"k", "t">>],
       [kind |-> "If", names |-> << >>, condition |-> "c",
        ops |-> << << [kind |-> "Return", operands |-> <<"t">>] >>,
                   << [kind |-> "Yield", operands |-> << >>] >> >>],
       [kind |-> "Yield", operands |-> <<"t">>] >>

\* FUNCTION after parse_software
FUNCTION ==
    [main |-> [args |-> <<"n", "s", "k">>,
               ops |-> << [kind |-> "Call", names |-> <<"r">>, function |-> "sum",
                           operands |-> <<"n", "s", "k">>],
                          [kind |-> "Compute", name |-> "w", op_type |-> "add",
                           ret_type |-> "u32", operands |-> <<"r", "r">>],
                          [kind |-> "Return", operands |-> <<"w">>] >>],
     sum |-> [args |-> <<"ub", "st", "k">>,
              ops |-> << [kind |-> "Compute", name |-> "z", op_type |-> "constant",
                          ret_type |-> "u32", operands |-> <<0>>],
                         [kind |-> "For", names |-> <<"acc">>, lb |-> "z", ub |-> "ub",
                          step |-> "st", iter_name |-> "i", iter_args |-> <<"a">>,
                          iter_inits |-> <<"z">>, ops |-> for_body],
                         [kind |-> "Return", operands |-> <<"acc">>] >>]]

\* get_all_value
get_all_value(values, ops) == [j \in 1..Len(ops) |-> values[ops[j]]]

\* set_value over zip(names, vals), in order
RECURSIVE set_all(_, _, _)
set_all(values, names, vals) ==
    IF names = << >> \/ vals = << >> THEN values
    ELSE set_all(soft_set_value(values, Head(names), Head(vals)), Tail(names), Tail(vals))

\* set_value(name, get_value(source)) over zip(names, sources), in order
RECURSIVE set_from(_, _, _)
set_from(values, names, sources) ==
    IF names = << >> \/ sources = << >> THEN values
    ELSE set_from(soft_set_value(values, Head(names), values[Head(sources)]),
                  Tail(names), Tail(sources))

\* the names Operation::drop removes
Operation_drop(op) ==
    CASE op.kind = "Compute" -> {op.name}
      [] op.kind \in {"For", "If"} -> {op.names[j] : j \in 1..Len(op.names)}
      [] OTHER -> {}

\* drop_body: Operation::drop of every operation of a body
drop_body(values, ops) ==
    [v \in DOMAIN values \ UNION {Operation_drop(ops[j]) : j \in 1..Len(ops)} |-> values[v]]

\* Controller::drop
drop_controller(top, values) ==
    CASE top.kind \in {"Function", "Call"} -> drop_body(values, top.function.ops)
      [] top.kind = "For" ->
           Bind(drop_body(values, top.for_op.ops), LAMBDA d :
             [v \in DOMAIN d \ ({top.for_op.iter_name}
                                \cup {top.for_op.iter_args[j] :
                                        j \in 1..Len(top.for_op.iter_args)}) |-> d[v]])
      [] top.kind = "If" ->
           drop_body(drop_body(values, top.if_op.ops[1]), top.if_op.ops[2])

\* the operations the controller walks and its position in them
controller_ops(top) ==
    CASE top.kind \in {"Function", "Call"} -> top.function.ops
      [] top.kind = "For" -> top.for_op.ops
      [] top.kind = "If" -> top.if_op.ops[top.branch + 1]

\* the operation Controller::step evaluates
controller_op(top) == controller_ops(top)[top.op_now + 1]

\* the names read by the evaluation of an operation and by the handling of
\* its result in the controller
reads(top, op) ==
    CASE op.kind = "Compute" ->
           IF op.op_type = "constant" THEN {}
           ELSE {op.operands[j] : j \in 1..Len(op.operands)}
      [] op.kind \in {"Return", "Call"} -> {op.operands[j] : j \in 1..Len(op.operands)}
      [] op.kind = "Yield" ->
           {op.operands[j] : j \in 1..Len(op.operands)}
           \cup (IF top.kind = "For"
                 THEN {top.for_op.lb, top.for_op.iter_name, top.for_op.step, top.for_op.ub}
                 ELSE {})
      [] op.kind = "For" -> {op.lb, op.ub}
      [] op.kind = "If" -> {op.condition}

\* the cycle panics: the index of the operation is out of the body, or
\* get_value unwraps the lookup of a name that is not in the map
step_panics(top, values) ==
    \/ top.op_now + 1 > Len(controller_ops(top))
    \/ ~(reads(top, controller_op(top)) \subseteq DOMAIN values)
    \/ /\ controller_op(top).kind = "For"
       /\ cmp_lt(get_all_value(values, <<controller_op(top).lb, controller_op(top).ub>>))
            = Bool(TRUE)
       /\ ~({controller_op(top).iter_inits[j] :
               j \in 1..Len(controller_op(top).iter_inits)}
            \subseteq DOMAIN values \cup {controller_op(top).iter_name})

\* operation_env with FakeEnv
compute(op, values) ==
    CASE op.op_type = "constant" -> U32(op.operands[1])
      [] op.op_type = "add" -> add(op.ret_type, get_all_value(values, op.operands))
      [] op.op_type = "cmp_lt" -> cmp_lt(get_all_value(values, op.operands))

\* Operation::eval: the result, the variable map and CURRENT_STACK after it
Operation_eval(op, values) ==
    CASE op.kind = "Compute" ->
           [eval |-> "Nothing", vals |-> << >>, push |-> << >>,
            values |-> soft_set_value(values, op.name, compute(op, values))]
      [] op.kind \in {"Yield", "Return"} ->
           [eval |-> op.kind, vals |-> get_all_value(values, op.operands),
            push |-> << >>, values |-> values]
      [] op.kind = "For" ->
           IF cmp_lt(get_all_value(values, <<op.lb, op.ub>>)) = Bool(TRUE)
           THEN [eval |-> "Nothing", vals |-> << >>,
                 push |-> << [kind |-> "For", for_op |-> op, op_now |-> 0] >>,
                 values |-> set_from(soft_set_value(values, op.iter_name, values[op.lb]),
                                     op.iter_args, op.iter_inits)]
           ELSE [eval |-> "Nothing", vals |-> << >>, push |-> << >>, values |-> values]
      [] op.kind = "If" ->
           [eval |-> "Nothing", vals |-> << >>, values |-> values,
            push |-> << [kind |-> "If", if_op |-> op, op_now |-> 0,
                         branch |-> IF values[op.condition] = Bool(TRUE) THEN 0 ELSE 1] >>]
      [] op.kind = "Call" ->
           [eval |-> "Nothing", vals |-> << >>,
            push |-> << [kind |-> "Call", call_op |-> op,
                         function |-> FUNCTION[op.function], op_now |-> 0] >>,
            values |-> set_all(values, FUNCTION[op.function].args,
                               get_all_value(values, op.operands))]

\* the termination test of a For on a Yield: add of the iterator and the
\* step in the type of lb, then cmp_lt with ub
for_continues_always(for_op, values) == TRUE

for_continues(for_op, values) ==
    cmp_lt(<< add(get_type(values[for_op.lb]),
                  <<values[for_op.iter_name], values[for_op.step]>>),
              values[for_op.ub] >>) = Bool(TRUE)

\* Controller::step: the STEP, the controller, the variable map and
\* CURRENT_STACK after it
step_controller(top, values) ==
    Bind(Operation_eval(controller_op(top), values), LAMBDA e :
      CASE e.eval = "Return" ->
             [step |-> "Return", vals |-> e.vals, top |-> top, push |-> << >>,
              values |-> e.values]
        [] e.eval = "Nothing" ->
             [step |-> "Normal", vals |-> << >>, top |-> [top EXCEPT !.op_now = @ + 1],
              push |-> e.push, values |-> e.values]
        [] e.eval = "Yield" /\ top.kind \in {"Function", "Call"} ->
             [step |-> "Normal", vals |-> << >>, top |-> top, push |-> << >>,
              values |-> e.values]
        [] e.eval = "Yield" /\ top.kind = "For" ->
             IF for_continues(top.for_op, values)
             THEN [step |-> "Normal", vals |-> << >>, top |-> [top EXCEPT !.op_now = 0],
                   push |-> << >>,
                   values |-> set_all(soft_set_value(values, top.for_op.iter_name,
                                          add(get_type(values[top.for_op.lb]),
                                              <<values[top.for_op.iter_name],
                                                values[top.for_op.step]>>)),
                                      top.for_op.iter_args, e.vals)]
             ELSE [step |-> "Yield", vals |-> << >>, top |-> top, push |-> << >>,
                   values |-> drop_controller(top, set_all(values, top.for_op.names,
                                                           e.vals))]
        [] e.eval = "Yield" /\ top.kind = "If" ->
             [step |-> "Yield", vals |-> << >>, top |-> top, push |-> << >>,
              values |-> drop_controller(top, set_all(values, top.if_op.names, e.vals))])

\* the controllers at which the loop of a Return stops
is_boundary_any(top) == TRUE

is_boundary(top) == top.kind \in {"Function", "Call"}

\* the loop of software::step on STEP::Return: controllers are popped up to
\* a Function, which is dropped, or a Call, whose names take the returned
\* values before it is dropped
RECURSIVE unwind(_, _, _)
unwind(stack, values, return_val) ==
    LET top == stack[Len(stack)]
        rest == SubSeq(stack, 1, Len(stack) - 1)
    IN  IF ~is_boundary(top) THEN unwind(rest, values, return_val)
        ELSE [stack |-> rest,
              values |-> drop_controller(top,
                           IF top.kind = "Call"
                           THEN set_all(values, top.call_op.names, return_val)
                           ELSE values)]

\* one cycle of software::step without breakpoint: the top controller is
\* popped and stepped; on Normal it goes back under the controllers of
\* CURRENT_STACK, on Yield it stays popped, on Return the stack unwinds
software_cycle(stack, values) ==
    LET top == stack[Len(stack)]
        rest == SubSeq(stack, 1, Len(stack) - 1)
    IN  Bind(step_controller(top, values), LAMBDA r :
          CASE r.step = "Normal" ->
                 [stack |-> Append(rest, r.top) \o r.push, values |-> r.values]
            [] r.step = "Yield" -> [stack |-> rest, values |-> r.values]
            [] r.step = "Return" -> unwind(Append(rest, top), r.values, r.vals))

\* most value of an argument of main
MaxArg == 3

\* the software engine after call_function("main", [n, s, k])
InitProg ==
    /\ OPERATION_STACK = << [kind |-> "Function", function |-> FUNCTION["main"],
                             op_now |-> 0] >>
    /\ \E n \in 0..MaxArg, s \in 1..2, k \in 0..MaxArg :
         VARIABLE_VALUE = [v \in {"n", "s", "k"} |->
                             IF v = "n" THEN U32(n) ELSE IF v = "s" THEN U32(s)
                             ELSE U32(k)]

\* software::step(1, false)
ProgStep ==
    /\ OPERATION_STACK # << >>
    /\ ~step_panics(OPERATION_STACK[Len(OPERATION_STACK)], VARIABLE_VALUE)
    /\ \E s \in {software_cycle(OPERATION_STACK, VARIABLE_VALUE)} :
         /\ OPERATION_STACK' = s.stack
         /\ VARIABLE_VALUE' = s.values
         /\ printed' = print_lines(soft_watch(s.values, WATCHPOINT), printed)
    /\ UNCHANGED <<DEBUG_STATE, BREAKPOINT, WATCHPOINT, break_hit>>
    /\ UNCHANGED <<cosimVars, hsVars, torVars, alignVars, stgVars, extVars>>

NextProg == ProgStep

\* the names on which a breakpoint can be set in the loaded file
ProgNames == {"r", "w", "z", "acc", "t", "c"}

\* Operation::mark: a Call, a Yield and a Return are never marked
Operation_mark(op, bps) ==
    CASE op.kind = "Compute" -> op.name \in bps
      [] op.kind \in {"For", "If"} -> \E j \in 1..Len(op.names) : op.names[j] \in bps
      [] OTHER -> FALSE

\* a mark that looks at the operation of every kind of controller
mark_controller_any(top, bps) == Operation_mark(controller_op(top), bps)

\* Controller::mark: an If and a Call controller are never marked
mark_controller(top, bps) ==
    top.kind \in {"Function", "For"} /\ Operation_mark(controller_op(top), bps)

\* the debugger with one breakpoint and the software engine after
\* call_function("main", [n, s, k])
InitBreak ==
    /\ DEBUG_STATE = "Software"
    /\ BREAKPOINT \in {{b} : b \in ProgNames}
    /\ WATCHPOINT = {}
    /\ break_hit = FALSE
    /\ printed = {}

\* software::step(1, true): the popped controller is pushed back if it is
\* marked, else it is stepped
ProgBreakStep ==
    /\ OPERATION_STACK # << >>
    /\ ~step_panics(OPERATION_STACK[Len(OPERATION_STACK)], VARIABLE_VALUE)
    /\ IF mark_controller(OPERATION_STACK[Len(OPERATION_STACK)], BREAKPOINT)
       THEN /\ break_hit' = TRUE
            /\ UNCHANGED <<OPERATION_STACK, VARIABLE_VALUE, printed>>
       ELSE \E s \in {software_cycle(OPERATION_STACK, VARIABLE_VALUE)} :
              /\ OPERATION_STACK' = s.stack
              /\ VARIABLE_VALUE' = s.values
              /\ break_hit' = FALSE
              /\ printed' = print_lines(soft_watch(s.values, WATCHPOINT), printed)
    /\ UNCHANGED <<DEBUG_STATE, BREAKPOINT, WATCHPOINT>>
    /\ UNCHANGED <<cosimVars, hsVars, torVars, alignVars, stgVars, extVars>>

NextBreak == ProgBreakStep

(***************************************************************************)
(* Section 13.  The static walk of a ToR function (tor.rs).                *)
(*                                                                         *)
(* The function walk(ub, m, z, s) is one loop around an if:                *)
(*                                                                         *)
(*   0:BeginFor -> 1 -> 2:BeginIf -> 3 -> 5 -> 6:EndFor                    *)
(*                                \-> 4 -> 5        0 -static-for-> 7      *)
(*                                                                         *)
(* r = for i = z to ub step s iter_args(acc = z):                          *)
(* edge 1 -> 2 computes c = i < m, the branch edge 3 -> 5 computes         *)
(* a = i + ub, the branch edge 4 -> 5 computes b = i + i, the if yields a  *)
(* or b into x at its end node 5, the edge 5 -> 6 reads a stream and       *)
(* computes y = acc + x, the loop yields y; node 7 returns r.              *)
(***************************************************************************)
\* most cycles in a row for which the stream of the edge 5 -> 6 is not ready
MaxStall == 2

\* the end node of the if
WalkIfEnd == 5

\* the start node of the loop, which ir["jump"] names at its yield
WalkForStart == 0

\* Control of every node
walk_node(n) ==
    CASE n = 0 -> "BeginFor"
      [] n = 2 -> "BeginIf"
      [] n = 6 -> "EndFor"
      [] n = 7 -> "Return"
      [] OTHER -> "Normal"

\* the ForOp of the nodes 0 and 6 with the yield bound to the EndFor
walk_for ==
    [lb |-> "z", ub |-> "ub", step |-> "s", iter_name |-> "i", iter_args |-> <<"acc">>,
     iter_inits |-> <<"z">>, names |-> <<"r">>, yield |-> <<"y">>]

\* if_node[5]: the IfOp and the operands of the yields of body0 and body1
if_node == [condition |-> "c", names |-> <<"x">>, yield_op |-> << <<"a">>, <<"b">> >>]

\* the edges out of every node, in the order of the JSON description
walk_graph(fn) ==
    [n \in 0..7 |->
       CASE n = 0 -> << [to |-> 1, edge_type |-> "static", n |-> 1, stream |-> FALSE,
                         ops |-> << >>],
                        [to |-> 7, edge_type |-> "static-for", n |-> 1, stream |-> FALSE,
                         ops |-> << >>] >>
         [] n = 1 -> << [to |-> 2, edge_type |-> "static", n |-> 1, stream |-> FALSE,
                         ops |-> << [name |-> "c", op_type |-> "cmp_lt",
                                     ret_type |-> "bool", operands |-> <<"i", "m">>] >>] >>
         [] n = 2 -> << [to |-> 3, edge_type |-> "static", n |-> 1, stream |-> FALSE,
                         ops |-> << >>],
                        [to |-> 4, edge_type |-> "static", n |-> 1, stream |-> FALSE,
                         ops |-> << >>] >>
         [] n = 3 -> << [to |-> 5, edge_type |-> "static", n |-> 1, stream |-> FALSE,
                         ops |-> << [name |-> "a", op_type |-> "add", ret_type |-> "u32",
                                     operands |-> <<"i", "ub">>] >>] >>
         [] n = 4 -> << [to |-> 5, edge_type |-> "static", n |-> 1, stream |-> FALSE,
                         ops |-> << [name |-> "b", op_type |-> "add", ret_type |-> "u32",
                                     operands |-> <<"i", "i">>] >>] >>
         [] n = 5 -> << [to |-> 6, edge_type |-> "static:", n |-> fn.lat, stream |-> TRUE,
                         ops |-> << [name |-> "y", op_type |-> "add", ret_type |-> "u32",
                                     operands |-> <<"acc", "x">>] >>] >>
         [] OTHER -> << >>]

\* the loop over the operations of an edge: Operation::eval of each
RECURSIVE eval_ops(_, _)
eval_ops(values, ops) ==
    IF ops = << >> THEN values
    ELSE eval_ops(soft_set_value(values, Head(ops).name, compute(Head(ops), values)),
                  Tail(ops))

\* the branch of an if under the value of its condition
if_branch(cond) == IF cond = Bool(TRUE) THEN 0 ELSE 1

\* the test at the head of TimeGraph::step: the node has an if_node entry
\* and edge_cycle is 0
commit_due_always(cur) == cur[1] = WalkIfEnd

commit_due(cur) == cur[1] = WalkIfEnd /\ cur[2] = 0

\* the head of TimeGraph::step: on the if-end node with edge_cycle 0 the
\* yield of the branch the condition names goes into the names of the if
if_commit(g) ==
    IF commit_due(g.current)
    THEN [g EXCEPT
            !.env = set_from(@, if_node.names,
                             if_node.yield_op[if_branch(g.env[if_node.condition]) + 1]),
            !.flag = TRUE, !.committed = TRUE]
    ELSE g

\* TimeGraph::step at a Normal node, mini: a ready edge counts a cycle and
\* at its latency evaluates its operations and moves the walk
walk_normal_eager(g, edge, ready) ==
    IF edge.stream /\ ~ready THEN g
    ELSE IF g.current[2] + 1 = get_latency(edge)
    THEN [g EXCEPT !.env = eval_ops(@, edge.ops), !.current = <<edge.to, 0>>]
    ELSE [g EXCEPT !.env = eval_ops(@, edge.ops), !.current = <<@[1], @[2] + 1>>]

walk_normal(g, edge, ready) ==
    IF edge.stream /\ ~ready THEN g
    ELSE IF g.current[2] + 1 = get_latency(edge)
    THEN [g EXCEPT !.env = eval_ops(@, edge.ops), !.current = <<edge.to, 0>>]
    ELSE [g EXCEPT !.current = <<@[1], @[2] + 1>>]

\* the first edge out of the loop start that is, or is not, the static-for
\* edge
walk_for_edge(fn, exit) ==
    LET es == walk_graph(fn)[WalkForStart]
        i == CHOOSE j \in 1..Len(es) :
               /\ (es[j].edge_type = "static-for") = exit
               /\ \A k \in 1..(j - 1) : (es[k].edge_type = "static-for") # exit
    IN  es[i]

\* TimeGraph::step at the BeginFor node
walk_begin_for(g, fn) ==
    IF cmp_lte(as_u32(g.env[walk_for.lb]), as_u32(g.env[walk_for.ub]))
    THEN [g EXCEPT !.env = set_from(soft_set_value(@, walk_for.iter_name, @[walk_for.lb]),
                                    walk_for.iter_args, walk_for.iter_inits),
                   !.current = <<walk_for_edge(fn, FALSE).to, 0>>]
    ELSE [g EXCEPT !.current = <<walk_for_edge(fn, TRUE).to, 0>>]

\* TimeGraph::step at the BeginIf node
walk_begin_if(g, fn) ==
    [g EXCEPT !.current = <<walk_graph(fn)[g.current[1]]
                              [if_branch(g.env[if_node.condition]) + 1].to, 0>>,
              !.taken = if_branch(g.env[if_node.condition])]

\* TimeGraph::step at the EndFor node, mini: the first cycle only counts;
\* the second one tests iter + step <= ub and goes round or leaves
walk_end_for(g, fn) ==
    IF g.current[2] = 0 THEN [g EXCEPT !.current = <<@[1], 1>>]
    ELSE LET values == get_all_value(g.env, walk_for.yield)
             new_iter == add(get_type(g.env[walk_for.lb]),
                             <<g.env[walk_for.iter_name], g.env[walk_for.step]>>)
         IN  IF cmp_lte(as_u32(new_iter), as_u32(g.env[walk_for.ub]))
             THEN [g EXCEPT !.env = set_all(soft_set_value(@, walk_for.iter_name, new_iter),
                                            walk_for.iter_args, values),
                            !.current = <<walk_for_edge(fn, FALSE).to, 0>>]
             ELSE [g EXCEPT !.env = set_all(@, walk_for.names, values),
                            !.current = <<walk_for_edge(fn, TRUE).to, 0>>]

\* TimeGraph::step(true, env); ready: the stream of the edge is ready
TimeGraph_step(g, fn, ready) ==
    Bind(if_commit(g), LAMBDA g1 :
      CASE walk_node(g1.current[1]) = "Normal" ->
             walk_normal(g1, walk_graph(fn)[g1.current[1]][1], ready)
        [] walk_node(g1.current[1]) = "BeginFor" -> walk_begin_for(g1, fn)
        [] walk_node(g1.current[1]) = "BeginIf" -> walk_begin_if(g1, fn)
        [] walk_node(g1.current[1]) = "EndFor" -> walk_end_for(g1, fn)
        [] walk_node(g1.current[1]) = "Return" -> [g1 EXCEPT !.ret = TRUE])

\* the instance after the call walk(ub, m, 0, 1)
InitWalk ==
    /\ current = <<0, 0>>
    /\ \E ub \in 0..MaxUb, m \in 0..MaxUb :
         walk_env = [v \in {"ub", "m", "z", "s"} |->
                       IF v = "ub" THEN U32(ub) ELSE IF v = "m" THEN U32(m)
                       ELSE IF v = "z" THEN U32(0) ELSE U32(1)]
    /\ walk_fn \in [lat : 1..MaxLat]
    /\ if_flag = FALSE
    /\ walk_ret = FALSE
    /\ taken = 0
    /\ commits = 0

\* no static walk: the instance has returned
IdleWalk ==
    /\ current = <<7, 0>>
    /\ walk_env = [v \in {"r"} |-> U32(0)]
    /\ walk_fn = [lat |-> 1]
    /\ if_flag = FALSE
    /\ walk_ret = TRUE
    /\ taken = 0
    /\ commits = 0

\* one cycle of the instance: Instance::step(true) of the static instance
WalkStep ==
    /\ ~walk_ret
    /\ \E ready \in BOOLEAN :
         /\ ~ready => commits < MaxStall
         /\ \E g \in {TimeGraph_step([current |-> current, env |-> walk_env,
                                      flag |-> if_flag, ret |-> FALSE, taken |-> taken,
                                      committed |-> FALSE], walk_fn, ready)} :
              /\ current' = g.current
              /\ walk_env' = g.env
              /\ if_flag' = g.flag
              /\ walk_ret' = g.ret
              /\ taken' = g.taken
              /\ commits' = IF current[1] # WalkIfEnd /\ g.current[1] = WalkIfEnd THEN 0
                            ELSE IF g.committed THEN commits + 1 ELSE commits
    /\ UNCHANGED walk_fn
    /\ UNCHANGED <<cosimVars, hsVars, torVars, alignVars, stgVars, softVars, dbgVars>>
    /\ UNCHANGED <<stepVars, loadVars, dutVars, memVars, modVars, runVars, lateVars>>

NextWalk == WalkStep

(***************************************************************************)
(* Section 14.  Calls between ToR functions (tor.rs).                      *)
(*                                                                         *)
(* The loaded file has three static functions:                             *)
(*   top(n, m):  0 -(p = n + n)-> 1:Call sub(p) -> [q]                     *)
(*               1 -> 2 -(w = q + m)-> 3:Return [w]                        *)
(*   sub(u):     0 -(v = u + u, static:lat)-> 1:Call leaf(v) -> [t]        *)
(*               1 -> 2:Return [t]                                         *)
(*   leaf(x):    0 -(z = x + x)-> 1:Return [z]                             *)
(* An instance is kept in tor_insts after its return, marked done, with    *)
(* the number of steps it has made.                                        *)
(***************************************************************************)
\* Control of every node of a function
call_node(function, n) ==
    CASE function = "top" /\ n = 1 ->
           [kind |-> "Call", function |-> "sub", operands |-> <<"p">>, names |-> <<"q">>]
      [] function = "top" /\ n = 3 -> [kind |-> "Return", operands |-> <<"w">>]
      [] function = "sub" /\ n = 1 ->
           [kind |-> "Call", function |-> "leaf", operands |-> <<"v">>, names |-> <<"t">>]
      [] function = "sub" /\ n = 2 -> [kind |-> "Return", operands |-> <<"t">>]
      [] function = "leaf" /\ n = 1 -> [kind |-> "Return", operands |-> <<"z">>]
      [] OTHER -> [kind |-> "Normal"]

\* the arguments of every function
call_args(function) ==
    CASE function = "top" -> <<"n", "m">>
      [] function = "sub" -> <<"u">>
      [] function = "leaf" -> <<"x">>

\* an edge without stream operations
plain_edge(to, edge_type, n, ops) ==
    [to |-> to, edge_type |-> edge_type, n |-> n, stream |-> FALSE, ops |-> ops]

\* an add of two names
add_op(name, a, b) ==
    [name |-> name, op_type |-> "add", ret_type |-> "u32", operands |-> <<a, b>>]

\* the edges out of every node of a function, in the order of the JSON
\* description
call_graph(function, fn) ==
    CASE function = "top" ->
           << << plain_edge(1, "static", 1, << add_op("p", "n", "n") >>) >>,
              << plain_edge(2, "static", 1, << >>) >>,
              << plain_edge(3, "static", 1, << add_op("w", "q", "m") >>) >>,
              << >> >>
      [] function = "sub" ->
           << << plain_edge(1, "static:", fn.lat, << add_op("v", "u", "u") >>) >>,
              << plain_edge(2, "static", 1, << >>) >>,
              << >> >>
      [] function = "leaf" ->
           << << plain_edge(1, "static", 1, << add_op("z", "x", "x") >>) >>,
              << >> >>

\* a StaticInstance of a function with the TimeGraph of FUNCTION cloned
new_instance(function, args, father) ==
    [function |-> function, current |-> <<0, 0>>,
     env |-> set_all(<< >>, call_args(function), args),
     active |-> TRUE, father |-> father, steps |-> 0, done |-> FALSE]

\* TimeGraph::step(true, env) in these graphs: the STEP and the instance
\* after it
call_step(inst, fn) ==
    LET node == call_node(inst.function, inst.current[1])
    IN  CASE node.kind = "Normal" ->
               [step |-> "Nothing", values |-> << >>,
                inst |-> walk_normal(inst,
                             call_graph(inst.function, fn)[inst.current[1] + 1][1], TRUE)]
          [] node.kind = "Call" ->
               [step |-> "Call", values |-> get_all_value(inst.env, node.operands),
                inst |-> inst]
          [] node.kind = "Return" ->
               [step |-> "Return", values |-> get_all_value(inst.env, node.operands),
                inst |-> inst]

\* TimeGraph::get_call: at a Call node the names of the call take the
\* values and the walk moves to the node after the call
get_call_unbound(inst, values, fn) ==
    [inst EXCEPT
       !.current = <<call_graph(inst.function, fn)[inst.current[1] + 1][1].to, 0>>]

get_call(inst, values, fn) ==
    IF call_node(inst.function, inst.current[1]).kind = "Call"
    THEN [inst EXCEPT
            !.env = set_all(@, call_node(inst.function, inst.current[1]).names, values),
            !.current = <<call_graph(inst.function, fn)[inst.current[1] + 1][1].to, 0>>]
    ELSE inst

\* the handling of STEP::Return in tor::step: the father takes the values
\* and, when it is not active, is made active and pushed on ACTIVE
on_return(s, k, values, fn) ==
    LET f == s.insts[k].father
        returned == [s.insts EXCEPT ![k].done = TRUE]
    IN  IF f = 0 THEN [s EXCEPT !.insts = returned]
        ELSE [insts |-> [returned EXCEPT
                           ![f] = [get_call(@, values, fn) EXCEPT !.active = TRUE]],
              active |-> IF s.insts[f].active THEN s.active ELSE Append(s.active, f)]

\* the handling of STEP::Call in tor::step: the caller is made inactive and
\* an instance of the callee, with the caller as its father, is pushed
on_call(s, k, function, values) ==
    [insts |-> Append([s.insts EXCEPT ![k].active = FALSE],
                      new_instance(function, values, k)),
     active |-> Append(s.active, Len(s.insts) + 1)]

\* the loop of tor::step over the drained ACTIVE list: every instance is
\* stepped once and, but for a Call and a Return, pushed back
RECURSIVE drain_active(_, _, _)
drain_active(s, drained, fn) ==
    IF drained = << >> THEN s
    ELSE LET k == Head(drained)
         IN  Bind(call_step(s.insts[k], fn), LAMBDA r :
               Bind([s EXCEPT !.insts[k] = [r.inst EXCEPT !.steps = @ + 1]], LAMBDA s1 :
                 drain_active(
                   CASE r.step = "Return" -> on_return(s1, k, r.values, fn)
                     [] r.step = "Call" ->
                          on_call(s1, k, call_node(r.inst.function,
                                                   r.inst.current[1]).function, r.values)
                     [] OTHER -> [s1 EXCEPT !.active = Append(@, k)],
                   Tail(drained), fn)))

\* the ToR engine after call_function("top", [n, m])
InitCall ==
    /\ \E n \in 0..MaxArg, m \in 0..MaxArg :
         tor_insts = << new_instance("top", <<U32(n), U32(m)>>, 0) >>
    /\ tor_ACTIVE = <<1>>
    /\ call_fn \in [lat : 1..MaxLat]

\* no ToR function has been called
IdleCall ==
    /\ tor_insts = << >>
    /\ tor_ACTIVE = << >>
    /\ call_fn = [lat |-> 1]

\* tor::step(1, false)
CallCycle ==
    /\ tor_ACTIVE # << >>
    /\ \E s \in {drain_active([insts |-> tor_insts, active |-> << >>], tor_ACTIVE,
                              call_fn)} :
         /\ tor_insts' = s.insts
         /\ tor_ACTIVE' = s.active
    /\ UNCHANGED call_fn
    /\ UNCHANGED <<cosimVars, hsVars, torVars, alignVars, stgVars, softVars, dbgVars>>
    /\ UNCHANGED <<stepVars, loadVars, dutVars, memVars, modVars, runVars, walkVars, lateButCall>>

NextCall == CallCycle

(***************************************************************************)
(* Section 15.  Go and done of the HEC static instances (hec.rs).          *)
(*                                                                         *)
(* Two modules with data.  The called module top(a) -> (o) has the states  *)
(*   t0: sub.x = a; go sub       t1: reg = sub.y0 if sub.done, to t2 when  *)
(*   sub.done, else t1           t2: done [reg]                            *)
(* and the module of its instance sub(x) -> (y0) has the states            *)
(*   u0: reg = x     u1: nothing, or a read of the FIFO     u2: done       *)
(* The args of both modules have one input, one return and a last name     *)
(* that is no return.  Every module has one register, reg.                 *)
(***************************************************************************)
SgInsts == {"top", "sub"}

SgKeys == {"a", "o", "e", "x", "y0", "y1", "done"}

\* a name that a HashMap does not hold
Absent == <<"absent", 0>>

\* a port name: a plain name of the environment, the port reg of the
\* register, or instance.name
port(scope, name) == [scope |-> scope, name |-> name]

\* Module::args of the two modules
sg_args == [top |-> <<"a", "o", "e">>, sub |-> <<"x", "y0", "y1">>]

\* Module::_num_in of the two modules
sg_num_in == [top |-> 1, sub |-> 1]

\* STG::_init_state of the two modules
sg_init_state == [top |-> "t0", sub |-> "u0"]

\* the instances of the two modules
sub_instances == [top |-> {"sub"}, sub |-> {}]

\* the names that the done of the module of sub can list
sub_done == <<port("reg", "reg"), port("env", "done")>>

\* STG::stg of the two modules; done is the Option of the state
sg_stg(mod) ==
    [top |-> [t0 |-> [ops |-> <<[op |-> "assign", dst |-> port("sub", "x"),
                                 src |-> port("env", "a"), guard |-> {}],
                                [op |-> "go", instance |-> "sub"]>>,
                      streams |-> FALSE, transition |-> << >>, default |-> "t1",
                      done |-> {}],
              t1 |-> [ops |-> <<[op |-> "assign", dst |-> port("reg", "reg"),
                                 src |-> port("sub", "y0"),
                                 guard |-> {port("sub", "done")}]>>,
                      streams |-> FALSE,
                      transition |-> <<[dest |-> "t2", cond |-> port("sub", "done")]>>,
                      default |-> "t1", done |-> {}],
              t2 |-> [ops |-> << >>, streams |-> FALSE, transition |-> << >>,
                      default |-> "none", done |-> {<<port("reg", "reg")>>}]],
     sub |-> [u0 |-> [ops |-> <<[op |-> "assign", dst |-> port("reg", "reg"),
                                 src |-> port("env", "x"), guard |-> {}]>>,
                      streams |-> FALSE, transition |-> << >>, default |-> "u1",
                      done |-> {}],
              u1 |-> [ops |-> << >>, streams |-> mod.wait, transition |-> << >>,
                      default |-> "u2", done |-> {}],
              u2 |-> [ops |-> << >>, streams |-> FALSE, transition |-> << >>,
                      default |-> "none",
                      done |-> {SubSeq(sub_done, 1, mod.done_len)}]]]

\* the env of StaticEnv::new
env_new == [k \in SgKeys |-> Absent]

\* an instance of StaticEnv::new and call_function
STGInstance_new(i, active) ==
    [state |-> sg_init_state[i], active |-> active, stall |-> FALSE,
     env |-> env_new, reg |-> reg_new]

\* StaticEnv::get_value_inner; of the register, the front of the queue
StaticEnv_get_value(h, i, p) ==
    IF p.scope = "env" THEN h.insts[i].env[p.name]
    ELSE IF p.scope = "reg" THEN h.insts[i].reg.queue
    ELSE h.insts[p.scope].env[p.name]

\* StaticEnv::set_value; of the register, the written value
StaticEnv_set_value(h, i, p, val) ==
    IF p.scope = "env" THEN [h EXCEPT !.insts[i].env[p.name] = val]
    ELSE IF p.scope = "reg" THEN [h EXCEPT !.insts[i].reg.new_value = val]
    ELSE [h EXCEPT !.insts[p.scope].env[p.name] = val]

\* a read of a name that the environment does not hold panics
reads_absent(h, i, ps) == \E p \in ps : StaticEnv_get_value(h, i, p) = Absent

\* Operation::eval of an Assign
Assign_eval(h, i, op) ==
    IF reads_absent(h, i, op.guard) THEN [h EXCEPT !.panic = TRUE]
    ELSE IF \E cond \in op.guard : StaticEnv_get_value(h, i, cond) # Bool(TRUE) THEN h
    ELSE IF reads_absent(h, i, {op.src}) THEN [h EXCEPT !.panic = TRUE]
    ELSE StaticEnv_set_value(h, i, op.dst, StaticEnv_get_value(h, i, op.src))

\* the jump of STG::step: the first jump whose cond is true, else the
\* default, else the state stays
RECURSIVE first_jump(_, _, _, _)
first_jump(h, i, transition, state) ==
    IF transition = << >>
    THEN IF state.default # "none" THEN state.default ELSE h.insts[i].state
    ELSE IF StaticEnv_get_value(h, i, Head(transition).cond) = Bool(TRUE)
    THEN Head(transition).dest
    ELSE first_jump(h, i, Tail(transition), state)

\* the args that the done of STG::step writes, a slice up to the end of args
return_args_all(args, num_in) == SubSeq(args, num_in + 1, Len(args))

\* the args that the done of STG::step writes: args[num_in..args.len() - 1]
return_args(args, num_in) == SubSeq(args, num_in + 1, Len(args) - 1)

\* the zip loop of the done of STG::step
RECURSIVE set_returns(_, _, _, _)
set_returns(h, i, args, return_val) ==
    IF args = << >> \/ return_val = << >> THEN h
    ELSE set_returns(StaticEnv_set_value(h, i, port("env", Head(args)), Head(return_val)),
                     i, Tail(args), Tail(return_val))

\* the done arm of STG::step
STG_done(h, i, done) ==
    IF reads_absent(h, i, {done[k] : k \in 1..Len(done)})
    THEN [h EXCEPT !.panic = TRUE, !.ret = FALSE]
    ELSE Bind(set_returns(h, i, return_args(sg_args[i], sg_num_in[i]),
                          [k \in 1..Len(done) |-> StaticEnv_get_value(h, i, done[k])]),
              LAMBDA h1 :
                Bind(StaticEnv_set_value(h1, i, port("env", "done"), Bool(TRUE)),
                     LAMBDA h2 :
                       [h2 EXCEPT !.insts[i].state = sg_init_state[i],
                                  !.ret = FALSE,
                                  !.published = [j \in DOMAIN @ \cup {i} |->
                                                   IF j = i THEN h2.insts[i].env
                                                   ELSE @[j]]]))

\* STG::step; ret is its result
RECURSIVE STG_step_data(_, _, _)

\* the loop of STG::step over the ops of the state: a go of an instance that
\* is not active sets it active, steps its STG, pushes it on ACTIVE and
\* on NEW_INSTANCE
RECURSIVE state_ops(_, _, _, _)
state_ops(h, mod, i, ops) ==
    IF ops = << >> THEN h
    ELSE Bind(IF Head(ops).op = "go"
              THEN IF ~h.insts[Head(ops).instance].active
                   THEN Bind(STG_step_data(
                                [h EXCEPT !.insts[Head(ops).instance].active = TRUE],
                                mod, Head(ops).instance),
                             LAMBDA g : [g EXCEPT
                                !.active = Append(@, Head(ops).instance),
                                !.new_instance = Append(@, Head(ops).instance),
                                !.went = @ \cup {Head(ops).instance}])
                   ELSE h
              ELSE Assign_eval(h, i, Head(ops)),
              LAMBDA h1 : state_ops(h1, mod, i, Tail(ops)))

STG_step_data(h, mod, i) ==
    Bind(StaticEnv_set_value(h, i, port("env", "done"), Bool(FALSE)),
         LAMBDA h0 :
           IF sg_stg(mod)[i][h0.insts[i].state].done = {}
           THEN Bind(state_ops([h0 EXCEPT !.ran = @ \cup {<<i, h0.insts[i].state>>}],
                               mod, i, sg_stg(mod)[i][h0.insts[i].state].ops),
                     LAMBDA h1 :
                       [h1 EXCEPT !.insts[i].state =
                                     first_jump(h1, i,
                                         sg_stg(mod)[i][h0.insts[i].state].transition,
                                         sg_stg(mod)[i][h0.insts[i].state]),
                                  !.ret = TRUE])
           ELSE STG_done(h0, i, CHOOSE d \in sg_stg(mod)[i][h0.insts[i].state].done : TRUE))

\* STG::check_stream
STG_check_stream_data(h, mod, i, empty) ==
    IF sg_stg(mod)[i][h.insts[i].state].done # {} THEN TRUE
    ELSE ~(sg_stg(mod)[i][h.insts[i].state].streams /\ empty)

\* Instance::step of a static instance
Instance_step_data(h, mod, i, empty) ==
    IF STG_check_stream_data(h, mod, i, empty)
    THEN Bind(STG_step_data([h EXCEPT !.insts[i].stall = FALSE], mod, i),
              LAMBDA h1 : IF h1.ret THEN h1 ELSE [h1 EXCEPT !.insts[i].active = FALSE])
    ELSE [StaticEnv_set_value(h, i, port("env", "done"), Bool(FALSE))
            EXCEPT !.insts[i].stall = TRUE, !.ret = TRUE]

\* the loop of hec::step over the drained ACTIVE list
RECURSIVE step_drained(_, _, _, _)
step_drained(h, mod, old_active, empty) ==
    IF old_active = << >> THEN h
    ELSE Bind(Instance_step_data(h, mod, Head(old_active), empty),
              LAMBDA h1 : step_drained(
                  IF h1.ret
                  THEN [h1 EXCEPT !.instances = Append(@, Head(old_active)),
                                  !.active = Append(@, Head(old_active))]
                  ELSE [h1 EXCEPT !.clear_instances = Append(@, Head(old_active))],
                  mod, Tail(old_active), empty))

\* Instance::update of a static instance: StaticEnv::update(false) unless
\* the instance stalls
Instance_update(h, i) ==
    [h EXCEPT !.updates[i] = @ + 1,
              !.insts[i].env = IF h.insts[i].stall THEN @ ELSE env_new,
              !.insts[i].reg = IF h.insts[i].stall THEN @ ELSE UnitEnv_update(@)]

\* StaticEnv::clear: of the environment, of the primitives and of the
\* instances of the module
StaticEnv_clear(h, i) ==
    [h EXCEPT !.insts = [j \in SgInsts |->
        IF j = i \/ j \in sub_instances[i]
        THEN [@[j] EXCEPT !.env = [env_new EXCEPT !["done"] = Bool(FALSE)],
                          !.reg = reg_new]
        ELSE @[j]]]

\* the loops of hec::step that update a list of instances
RECURSIVE update_each(_, _)
update_each(h, list) ==
    IF list = << >> THEN h
    ELSE Bind(Instance_update(h, Head(list)), LAMBDA h1 : update_each(h1, Tail(list)))

\* the loop of hec::step that clears the instances that have finished
RECURSIVE clear_each(_, _)
clear_each(h, list) ==
    IF list = << >> THEN h
    ELSE Bind(StaticEnv_clear(h, Head(list)), LAMBDA h1 : clear_each(h1, Tail(list)))

\* one cycle of hec::step: the steps of the drained ACTIVE list, the updates
\* of the instances that stay, the clears of the instances that finish, the
\* updates of NEW_INSTANCE
hec_cycle_data(h, mod, old_active, empty) ==
    Bind(step_drained(h, mod, old_active, empty),
         LAMBDA h1 :
           Bind(update_each(h1, h1.instances),
                LAMBDA h2 :
                  Bind(clear_each(h2, h2.clear_instances),
                       LAMBDA h3 : update_each(h3, h3.new_instance))))

\* call_function("top", [a]) on the loaded modules
InitRet ==
    /\ sg_mod \in [wait : BOOLEAN, done_len : 1..2]
    /\ sg_arg \in 0..MaxArg
    /\ sg_insts = [i \in SgInsts |->
                     IF i = "top"
                     THEN [STGInstance_new(i, TRUE) EXCEPT !.env["a"] = U32(sg_arg)]
                     ELSE STGInstance_new(i, FALSE)]
    /\ sg_ACTIVE = <<"top">>
    /\ sg_empty \in BOOLEAN
    /\ published = << >>
    /\ went = {}
    /\ ran = {}
    /\ updates = [i \in SgInsts |-> 0]

\* no HEC function has been called
IdleRet ==
    /\ sg_mod = [wait |-> FALSE, done_len |-> 1]
    /\ sg_arg = 0
    /\ sg_insts = [i \in SgInsts |-> STGInstance_new(i, FALSE)]
    /\ sg_ACTIVE = << >>
    /\ sg_empty = TRUE
    /\ published = << >>
    /\ went = {}
    /\ ran = {}
    /\ updates = [i \in SgInsts |-> 0]

\* one cycle of hec::step(1, false); the FIFO update at its end leaves the
\* FIFO empty or not, depending on what the other side has pushed
RetCycle ==
    /\ sg_ACTIVE # << >>
    /\ \E h \in {hec_cycle_data([insts |-> sg_insts, active |-> << >>,
                                 instances |-> << >>, clear_instances |-> << >>,
                                 new_instance |-> << >>, published |-> << >>,
                                 went |-> {}, ran |-> {},
                                 updates |-> [i \in SgInsts |-> 0],
                                 ret |-> TRUE, panic |-> FALSE],
                                sg_mod, sg_ACTIVE, sg_empty)} :
         /\ ~h.panic
         /\ sg_insts' = h.insts
         /\ sg_ACTIVE' = h.active
         /\ published' = h.published
         /\ went' = h.went
         /\ ran' = h.ran
         /\ updates' = h.updates
    /\ sg_empty' \in BOOLEAN
    /\ UNCHANGED <<sg_arg, sg_mod>>
    /\ UNCHANGED <<cosimVars, hsVars, torVars, alignVars, stgVars, softVars, dbgVars>>
    /\ UNCHANGED <<stepVars, loadVars, dutVars, memVars, modVars, runVars, walkVars, lateButRet>>

\* call_function("top", [a]) after the last call has finished: a new
\* instance of top with new instances of its submodules
RetCall ==
    /\ sg_ACTIVE = << >>
    /\ \E a \in 0..MaxArg :
         /\ sg_arg' = a
         /\ sg_insts' = [i \in SgInsts |->
                           IF i = "top"
                           THEN [STGInstance_new(i, TRUE) EXCEPT !.env["a"] = U32(a)]
                           ELSE STGInstance_new(i, FALSE)]
    /\ sg_ACTIVE' = <<"top">>
    /\ published' = << >>
    /\ went' = {}
    /\ ran' = {}
    /\ updates' = [i \in SgInsts |-> 0]
    /\ UNCHANGED <<sg_empty, sg_mod>>
    /\ UNCHANGED <<cosimVars, hsVars, torVars, alignVars, stgVars, softVars, dbgVars>>
    /\ UNCHANGED <<stepVars, loadVars, dutVars, memVars, modVars, runVars, walkVars, lateButRet>>

NextRet == RetCycle \/ RetCall

(***************************************************************************)
(* Section 16.  The casts of VALUE (basetype.rs).                          *)
(*                                                                         *)
(* The payload of an integer is the sequence of its bits, lowest first, as *)
(* long as its type is wide, so that the `as` casts extend and truncate as *)
(* Rust does.  The payload of a Bool is its one bit, that of a float is    *)
(* NaN, an infinity or sign * 1.m * 2^e, m being the bits of the           *)
(* significand after the leading one up to its last one; an f32 keeps 24   *)
(* significant bits and exponents up to 127, an f64 keeps 53 bits.  The    *)
(* inputs have no exponent below -1, so no cast underflows.                *)
(***************************************************************************)
CastTypes == {"bool", "i32", "u32", "i64", "u64", "f32", "f64"}

\* the width of an integer type; a bool casts as one bit
width(t) == IF t = "bool" THEN 1 ELSE IF t \in {"i32", "u32"} THEN 32 ELSE 64

signed(t) == t \in {"i32", "i64"}

\* the result of a cast that panics
Panicked == <<"panic", 0>>

\* significant bits and largest exponent of f32 and of f64
F32Bits == 24

F64Bits == 53

F32MaxExp == 127

F64MaxExp == 1023

\* float payloads
NaN == [k |-> "nan", s |-> 0, m |-> << >>, e |-> 0]

Inf(s) == [k |-> "inf", s |-> s, m |-> << >>, e |-> 0]

Zero == [k |-> "zero", s |-> 0, m |-> << >>, e |-> 0]

Fin(s, m, e) == [k |-> "fin", s |-> s, m |-> m, e |-> e]

\* a sequence of bits without the zeros at its end
RECURSIVE strip(_)
strip(m) ==
    IF m = << >> THEN m
    ELSE IF m[Len(m)] = 0 THEN strip(SubSeq(m, 1, Len(m) - 1)) ELSE m

\* the position of the highest one of bits (lowest first), 0 if none
RECURSIVE top_bit(_)
top_bit(bits) ==
    IF bits = << >> THEN 0
    ELSE IF bits[Len(bits)] = 1 THEN Len(bits) ELSE top_bit(SubSeq(bits, 1, Len(bits) - 1))

\* the two's complement of bits (lowest first): the bits up to the lowest
\* one stay, the bits above it flip
negate(bits) ==
    [k \in 1..Len(bits) |->
        IF \E j \in 1..(k - 1) : bits[j] = 1 THEN 1 - bits[k] ELSE bits[k]]

\* the bits 1 .. n of a significand (highest first, leading one included)
\* plus one
increment(head) ==
    IF \A k \in 1..Len(head) : head[k] = 1
    THEN [carry |-> 1, bits |-> [k \in 1..Len(head) |-> IF k = 1 THEN 1 ELSE 0]]
    ELSE LET j == CHOOSE j \in 1..Len(head) :
                      head[j] = 0 /\ \A k \in (j + 1)..Len(head) : head[k] = 1
         IN  [carry |-> 0,
              bits |-> [k \in 1..Len(head) |->
                          IF k < j THEN head[k] ELSE IF k = j THEN 1 ELSE 0]]

\* the rounding of `as f32` and `as f64`: to n significant bits, to the
\* nearest, ties to even; past the largest exponent the result is infinite
round_to(f, n, max_exp) ==
    IF f.k # "fin" THEN f
    ELSE LET sig == <<1>> \o f.m
             r == IF Len(sig) <= n THEN [carry |-> 0, bits |-> sig]
                  ELSE IF sig[n + 1] = 1 /\ (Len(sig) > n + 1 \/ sig[n] = 1)
                  THEN increment(SubSeq(sig, 1, n))
                  ELSE [carry |-> 0, bits |-> SubSeq(sig, 1, n)]
         IN  IF f.e + r.carry > max_exp THEN Inf(f.s)
             ELSE Fin(f.s, strip(Tail(r.bits)), f.e + r.carry)

\* the float of an integer: exact, before any rounding
int_to_float(v) ==
    LET neg == signed(v[1]) /\ v[2][Len(v[2])] = 1
        mag == IF neg THEN negate(v[2]) ELSE v[2]
        top == top_bit(mag)
    IN  IF top = 0 THEN Zero
        ELSE Fin(IF neg THEN 1 ELSE 0,
                 strip([k \in 1..(top - 1) |-> mag[top - k]]), top - 1)

\* the macro value_type!: `*x as $x` of an integer or a Bool extends by the
\* sign of its own type and truncates to the new width; ERROR is 0; a float
\* or Control panics
value_type(v, w) ==
    IF v[1] \in {"u32", "i32", "u64", "i64"}
    THEN [k \in 1..w |->
            IF k <= Len(v[2]) THEN v[2][k]
            ELSE IF signed(v[1]) THEN v[2][Len(v[2])] ELSE 0]
    ELSE IF v[1] = "bool" THEN [k \in 1..w |-> IF k = 1 THEN v[2][1] ELSE 0]
    ELSE IF v = ERROR THEN [k \in 1..w |-> 0]
    ELSE Panicked

\* VALUE::as_bool
VALUE_as_bool(v) ==
    IF v[1] \in {"u32", "i32", "u64", "i64"}
    THEN IF \E k \in 1..Len(v[2]) : v[2][k] = 1 THEN <<1>> ELSE <<0>>
    ELSE IF v[1] = "bool" THEN v[2]
    ELSE IF v = ERROR THEN <<0>>
    ELSE Panicked

\* VALUE::as_f32
VALUE_as_f32(v) ==
    IF v[1] = "f32" THEN v[2]
    ELSE IF v[1] = "f64" THEN round_to(v[2], F32Bits, F32MaxExp)
    ELSE IF v[1] \in {"u32", "i32", "u64", "i64"}
    THEN round_to(int_to_float(v), F32Bits, F32MaxExp)
    ELSE Zero

\* VALUE::as_f64
VALUE_as_f64(v) ==
    IF v[1] = "f32" THEN v[2]
    ELSE IF v[1] = "f64" THEN v[2]
    ELSE IF v[1] \in {"u32", "i32", "u64", "i64"}
    THEN round_to(int_to_float(v), F64Bits, F64MaxExp)
    ELSE Zero

\* a VALUE of a payload, or the panic of the cast that made the payload
made(t, payload) == IF payload = Panicked THEN Panicked ELSE <<t, payload>>

\* convert with the arm of i32 building a U32
convert_unsigned(old_value, new_type) ==
    IF old_value = Panicked THEN Panicked
    ELSE IF new_type = "bool" THEN made("bool", VALUE_as_bool(old_value))
    ELSE IF new_type = "i32" THEN made("u32", value_type(old_value, 32))
    ELSE IF new_type = "u32" THEN made("u32", value_type(old_value, 32))
    ELSE IF new_type = "f32" THEN <<"f32", VALUE_as_f32(old_value)>>
    ELSE IF new_type = "i64" THEN made("i64", value_type(old_value, 64))
    ELSE IF new_type = "u64" THEN made("u64", value_type(old_value, 64))
    ELSE IF new_type = "f64" THEN <<"f64", VALUE_as_f64(old_value)>>
    ELSE ERROR

\* convert; a cast of the value of a cast that has panicked is never made
convert(old_value, new_type) ==
    IF old_value = Panicked THEN Panicked
    ELSE IF new_type = "bool" THEN made("bool", VALUE_as_bool(old_value))
    ELSE IF new_type = "i32" THEN made("i32", value_type(old_value, 32))
    ELSE IF new_type = "u32" THEN made("u32", value_type(old_value, 32))
    ELSE IF new_type = "f32" THEN <<"f32", VALUE_as_f32(old_value)>>
    ELSE IF new_type = "i64" THEN made("i64", value_type(old_value, 64))
    ELSE IF new_type = "u64" THEN made("u64", value_type(old_value, 64))
    ELSE IF new_type = "f64" THEN <<"f64", VALUE_as_f64(old_value)>>
    ELSE ERROR

\* the bit patterns of the inputs, w wide: 0, 1, the largest signed, the
\* smallest signed, all ones, 2^24 + 1, 2^25 + 3 and, 64 wide, 2^32 and
\* 2^53 + 1
CastBits(w) ==
    {[k \in 1..w |-> 0],
     [k \in 1..w |-> IF k = 1 THEN 1 ELSE 0],
     [k \in 1..w |-> IF k = w THEN 0 ELSE 1],
     [k \in 1..w |-> IF k = w THEN 1 ELSE 0],
     [k \in 1..w |-> 1],
     [k \in 1..w |-> IF k \in {1, 25} THEN 1 ELSE 0],
     [k \in 1..w |-> IF k \in {1, 2, 26} THEN 1 ELSE 0]}
    \cup (IF w = 64
          THEN {[k \in 1..w |-> IF k = 33 THEN 1 ELSE 0],
                [k \in 1..w |-> IF k \in {1, 54} THEN 1 ELSE 0]}
          ELSE {})

\* the floats of the inputs that an f32 holds: 0, 1, -1.5, 0.5, 2^24 - 1,
\* 2^127, the infinities, NaN
CastF32 ==
    {Zero, Fin(0, << >>, 0), Fin(1, <<1>>, 0), Fin(0, << >>, -1),
     Fin(0, [k \in 1..23 |-> 1], 23), Fin(0, << >>, 127), Inf(0), Inf(1), NaN}

\* the floats of the inputs that only an f64 holds: 2^24 + 1, 2^25 + 3,
\* 2^25 - 1, 2^200
CastF64 ==
    {Fin(0, [k \in 1..24 |-> IF k = 24 THEN 1 ELSE 0], 24),
     Fin(0, [k \in 1..25 |-> IF k >= 24 THEN 1 ELSE 0], 25),
     Fin(0, [k \in 1..24 |-> 1], 24),
     Fin(0, << >>, 200)}

\* the values of the inputs
CastValues ==
    {<<"bool", <<b>> >> : b \in 0..1}
    \cup {<<t, bits>> : t \in {"i32", "u32"}, bits \in CastBits(32)}
    \cup {<<t, bits>> : t \in {"i64", "u64"}, bits \in CastBits(64)}
    \cup {<<"f32", f>> : f \in CastF32}
    \cup {<<"f64", f>> : f \in CastF32 \cup CastF64}
    \cup {ERROR, Control}

\* a cast that has not been made
NotCast == <<"none", 0>>

\* a value and two types; no cast has been made
InitCast ==
    /\ cast_v \in CastValues
    /\ cast_T \in CastTypes
    /\ cast_U \in CastTypes
    /\ cast_mid = NotCast
    /\ cast_out = NotCast
    /\ cast_direct = NotCast

IdleCast ==
    /\ cast_v = ERROR
    /\ cast_T = "bool"
    /\ cast_U = "bool"
    /\ cast_mid = NotCast
    /\ cast_out = NotCast
    /\ cast_direct = NotCast

\* convert(v, T)
ConvertFirst ==
    /\ cast_mid = NotCast
    /\ cast_mid' = convert(cast_v, cast_T)
    /\ UNCHANGED <<cast_v, cast_T, cast_U, cast_out, cast_direct>>
    /\ UNCHANGED <<cosimVars, hsVars, torVars, alignVars, stgVars, softVars, dbgVars>>
    /\ UNCHANGED <<stepVars, loadVars, dutVars, memVars, modVars, runVars, walkVars, lateButCast>>

\* convert(convert(v, T), U)
ConvertSecond ==
    /\ cast_mid # NotCast
    /\ cast_out = NotCast
    /\ cast_out' = convert(cast_mid, cast_U)
    /\ UNCHANGED <<cast_v, cast_T, cast_U, cast_mid, cast_direct>>
    /\ UNCHANGED <<cosimVars, hsVars, torVars, alignVars, stgVars, softVars, dbgVars>>
    /\ UNCHANGED <<stepVars, loadVars, dutVars, memVars, modVars, runVars, walkVars, lateButCast>>

\* convert(v, U)
ConvertDirect ==
    /\ cast_direct = NotCast
    /\ cast_direct' = convert(cast_v, cast_U)
    /\ UNCHANGED <<cast_v, cast_T, cast_U, cast_mid, cast_out>>
    /\ UNCHANGED <<cosimVars, hsVars, torVars, alignVars, stgVars, softVars, dbgVars>>
    /\ UNCHANGED <<stepVars, loadVars, dutVars, memVars, modVars, runVars, walkVars, lateButCast>>

NextCast == ConvertFirst \/ ConvertSecond \/ ConvertDirect

(***************************************************************************)
(* Section 17.  Tokens through a part of the handshake units               *)
(* (elastic.rs).                                                           *)
(*                                                                         *)
(* The part is a Join, a TEHB, an OEHB, a Fork(2) or an ElasticFIFO.  In   *)
(* every cycle its owner or its neighbours set valid and data on the       *)
(* ports it consumes and ready on the ports it produces, the part is       *)
(* propagated and then updated.  A producer keeps a token that it has      *)
(* offered, valid and data, until the cycle in which the port is valid and *)
(* ready; the consumers are ready or not as they please.  The tokens that  *)
(* have passed a port (valid and ready at the update) are recorded.        *)
(***************************************************************************)
\* the inputs of the Join
JoinSize == 3

\* the tokens that a producer offers before it stops
MaxTokens == 3

\* Join::set(JoinSize)
Join_set ==
    [data_in |-> [i \in 1..JoinSize |-> hv_empty], data_out |-> hv_empty]

\* Join::propagate with the fold of the readiness over every input
Join_propagate_all(j) ==
    [data_in |-> [idx \in 1..Len(j.data_in) |->
                    [j.data_in[idx] EXCEPT !.ready =
                        j.data_out.ready /\ \A k \in 1..Len(j.data_in) : j.data_in[k].valid]],
     data_out |-> [j.data_out EXCEPT !.valid =
                      \A k \in 1..Len(j.data_in) : j.data_in[k].valid]]

\* Join::propagate
Join_propagate(j) ==
    [data_in |-> [idx \in 1..Len(j.data_in) |->
                    [j.data_in[idx] EXCEPT !.ready =
                        j.data_out.ready
                        /\ \A k \in 1..Len(j.data_in) \ {idx} : j.data_in[k].valid]],
     data_out |-> [j.data_out EXCEPT !.valid =
                      \A k \in 1..Len(j.data_in) : j.data_in[k].valid]]

\* the parts as their owners build them
PartsSet ==
    {[kind |-> "join", u |-> Join_set], [kind |-> "tehb", u |-> TEHB_set],
     [kind |-> "oehb", u |-> OEHB_set], [kind |-> "fork", u |-> Fork_set],
     [kind |-> "fifo", u |-> ElasticFIFO_set]}

\* the ports on which the part consumes tokens
part_in(p) ==
    IF p.kind = "join" THEN p.u.data_in
    ELSE IF p.kind \in {"fork", "fifo"} THEN <<p.u.p["data_in"]>>
    ELSE <<p.u.data_in>>

\* the ports on which the part produces tokens
part_out(p) ==
    IF p.kind = "fork" THEN [i \in 1..2 |-> p.u.p[ForkOut[i]]]
    ELSE IF p.kind = "fifo" THEN <<p.u.p["data_out"]>>
    ELSE <<p.u.data_out>>

\* the owner sets valid and data of the consumed ports and ready of the
\* produced ports
part_drive(p, ins, r) ==
    IF p.kind = "join"
    THEN [p EXCEPT !.u.data_in = [i \in 1..Len(@) |->
                                    hv_set_valid(@[i], ins[i].valid, ins[i].data)],
                   !.u.data_out = hv_set_ready(@, r[1])]
    ELSE IF p.kind = "fork"
    THEN [p EXCEPT !.u.p = [name \in DOMAIN @ |->
                              IF name = "data_in"
                              THEN hv_set_valid(@[name], ins[1].valid, ins[1].data)
                              ELSE hv_set_ready(@[name],
                                     r[CHOOSE i \in 1..2 : ForkOut[i] = name])]]
    ELSE IF p.kind = "fifo"
    THEN [p EXCEPT !.u.p["data_in"] = hv_set_valid(@, ins[1].valid, ins[1].data),
                   !.u.p["data_out"] = hv_set_ready(@, r[1])]
    ELSE [p EXCEPT !.u.data_in = hv_set_valid(@, ins[1].valid, ins[1].data),
                   !.u.data_out = hv_set_ready(@, r[1])]

\* propagate of the part
part_propagate(p) ==
    [p EXCEPT !.u = IF p.kind = "join" THEN Join_propagate(@)
                    ELSE IF p.kind = "tehb" THEN TEHB_propagate(@)
                    ELSE IF p.kind = "oehb" THEN OEHB_propagate(@)
                    ELSE IF p.kind = "fork" THEN Fork_propagate(@).u
                    ELSE ElasticFIFO_propagate(@).u]

\* update of the part; a Join has no state
part_update(p) ==
    [p EXCEPT !.u = IF p.kind = "join" THEN @
                    ELSE IF p.kind \in {"tehb", "oehb"} THEN EHB_update(@)
                    ELSE IF p.kind = "fork" THEN Fork_update(@)
                    ELSE ElasticFIFO_update(@)]

\* what a producer can set on a port: a token that the port has not taken
\* stays; after MaxTokens tokens the producer of a part with one input
\* offers nothing
offers(p, hv) ==
    IF hv.valid /\ ~hv.ready THEN {[valid |-> TRUE, data |-> hv.data]}
    ELSE {[valid |-> FALSE, data |-> hv.data]}
         \cup (IF p.kind # "join" /\ Len(sent) >= MaxTokens THEN {}
               ELSE {[valid |-> TRUE, data |-> d] : d \in DutData})

\* the record of a cycle: whether the input took a token, which consumers
\* were ready, which outputs passed a token
cycle_record(p) ==
    [accepted |-> part_in(p)[1].valid /\ part_in(p)[1].ready,
     ready |-> [i \in 1..Len(part_out(p)) |-> part_out(p)[i].ready],
     took |-> [i \in 1..Len(part_out(p)) |->
                 part_out(p)[i].valid /\ part_out(p)[i].ready]]

no_cycle == [accepted |-> FALSE, ready |-> << >>, took |-> << >>]

InitPart ==
    /\ part \in PartsSet
    /\ part_pc = "set"
    /\ sent = << >>
    /\ got = [i \in 1..Len(part_out(part)) |-> << >>]
    /\ last_cycle = no_cycle
    /\ prev_cycle = no_cycle

IdlePart ==
    /\ part = [kind |-> "join", u |-> Join_set]
    /\ part_pc = "set"
    /\ sent = << >>
    /\ got = << << >> >>
    /\ last_cycle = no_cycle
    /\ prev_cycle = no_cycle

\* the start of a cycle: the ports are set
PartDrive ==
    /\ part_pc \in {"set", "updated"}
    /\ \E ins \in [1..Len(part_in(part)) -> [valid : BOOLEAN, data : DutData \cup {ERROR}]],
          r \in [1..Len(part_out(part)) -> BOOLEAN] :
         /\ \A i \in 1..Len(part_in(part)) : ins[i] \in offers(part, part_in(part)[i])
         /\ part' = part_drive(part, ins, r)
    /\ part_pc' = "driven"
    /\ UNCHANGED <<sent, got, last_cycle, prev_cycle>>
    /\ UNCHANGED <<cosimVars, hsVars, torVars, alignVars, stgVars, softVars, dbgVars>>
    /\ UNCHANGED <<stepVars, loadVars, dutVars, memVars, modVars, runVars, walkVars, lateButPart>>

\* propagate of the part
PartPropagate ==
    /\ part_pc = "driven"
    /\ part' = part_propagate(part)
    /\ part_pc' = "propagated"
    /\ UNCHANGED <<sent, got, last_cycle, prev_cycle>>
    /\ UNCHANGED <<cosimVars, hsVars, torVars, alignVars, stgVars, softVars, dbgVars>>
    /\ UNCHANGED <<stepVars, loadVars, dutVars, memVars, modVars, runVars, walkVars, lateButPart>>

\* update of the part, the end of the cycle: the tokens that pass the ports
\* in this cycle are recorded
PartUpdate ==
    /\ part_pc = "propagated"
    /\ part' = part_update(part)
    /\ part_pc' = "updated"
    /\ sent' = IF part.kind # "join" /\ cycle_record(part).accepted
               THEN Append(sent, part_in(part)[1].data) ELSE sent
    /\ got' = [i \in 1..Len(got) |->
                 IF part.kind # "join" /\ cycle_record(part).took[i]
                 THEN Append(got[i], part_out(part)[i].data) ELSE got[i]]
    /\ last_cycle' = cycle_record(part)
    /\ prev_cycle' = last_cycle
    /\ UNCHANGED <<cosimVars, hsVars, torVars, alignVars, stgVars, softVars, dbgVars>>
    /\ UNCHANGED <<stepVars, loadVars, dutVars, memVars, modVars, runVars, walkVars, lateButPart>>

NextPart == PartDrive \/ PartPropagate \/ PartUpdate

(***************************************************************************)
(* Section 18.  A MuxDynamic (elastic.rs).                                 *)
(*                                                                         *)
(* In every cycle the neighbours of the unit set valid and data on its     *)
(* two inputs and on its condition and ready on its output, the unit is    *)
(* propagated and then updated.                                            *)
(***************************************************************************)
\* MuxDynamic::set
MuxDynamic_set ==
    [data_in |-> <<hv_empty, hv_empty>>, data_out |-> hv_empty,
     condition |-> hv_empty, tehb |-> EHB_fresh]

\* the value that the unit offers to its TEHB
mux_tmp(m) ==
    LET condition_idx == as_u32(m.condition.data)
    IN  IF m.condition.valid /\ m.data_in[condition_idx + 1].valid
        THEN [valid |-> TRUE, data |-> m.data_in[condition_idx + 1].data]
        ELSE [valid |-> FALSE, data |-> ERROR]

\* the TEHB of the unit once propagate has set its ports: it is propagated
\* only if one of the ports changed
mux_tehb(m) ==
    LET tmp == mux_tmp(m)
        set == [m.tehb EXCEPT !.data_in = hv_set_valid(@, tmp.valid, tmp.data),
                              !.data_out = hv_set_ready(@, m.data_out.ready)]
    IN  IF hv_valid_changed(m.tehb.data_in, tmp.valid, tmp.data)
           \/ hv_ready_changed(m.tehb.data_out, m.data_out.ready)
        THEN TEHB_propagate(set) ELSE set

\* a multiplexer that is ready for the inputs that are not selected
mux_ready_drains(m, tehb, idx) ==
    (as_u32(m.condition.data) = idx /\ m.condition.valid /\ m.data_in[idx + 1].valid
        /\ tehb.data_in.ready)
    \/ ~(as_u32(m.condition.data) = idx /\ m.condition.valid)

\* the ready of the input idx (counted from 0)
mux_ready(m, tehb, idx) ==
    (as_u32(m.condition.data) = idx /\ m.condition.valid /\ m.data_in[idx + 1].valid
        /\ tehb.data_in.ready)
    \/ ~m.data_in[idx + 1].valid

\* MuxDynamic::propagate: the unit after the call
MuxDynamic_propagate(m) ==
    LET tehb == mux_tehb(m)
    IN  [data_in |-> [i \in 1..Len(m.data_in) |->
                        hv_set_ready(m.data_in[i], mux_ready(m, tehb, i - 1))],
         data_out |-> hv_set_valid(m.data_out, tehb.data_out.valid, tehb.data_out.data),
         condition |-> hv_set_ready(m.condition,
                          ~m.condition.valid \/ (mux_tmp(m).valid /\ tehb.data_in.ready)),
         tehb |-> tehb]

\* MuxDynamic::update
MuxDynamic_update(m) == [m EXCEPT !.tehb = EHB_update(@)]

\* the indices that a condition can carry
MuxIndex == {U32(0), U32(1)}

InitMux ==
    /\ mux = MuxDynamic_set
    /\ mux_pc = "set"

IdleMux ==
    /\ mux = MuxDynamic_set
    /\ mux_pc = "set"

\* the start of a cycle: the neighbours set the ports
MuxDrive ==
    /\ mux_pc \in {"set", "updated"}
    /\ \E ins \in [1..2 -> [valid : BOOLEAN, data : DutData]],
          c \in [valid : BOOLEAN, data : MuxIndex], r \in BOOLEAN :
         mux' = [mux EXCEPT !.data_in = [i \in 1..2 |->
                                           hv_set_valid(@[i], ins[i].valid, ins[i].data)],
                            !.condition = hv_set_valid(@, c.valid, c.data),
                            !.data_out = hv_set_ready(@, r)]
    /\ mux_pc' = "driven"
    /\ UNCHANGED <<cosimVars, hsVars, torVars, alignVars, stgVars, softVars, dbgVars>>
    /\ UNCHANGED <<stepVars, loadVars, dutVars, memVars, modVars, runVars, walkVars, lateFour, lastButMux>>

MuxPropagate ==
    /\ mux_pc = "driven"
    /\ mux' = MuxDynamic_propagate(mux)
    /\ mux_pc' = "propagated"
    /\ UNCHANGED <<cosimVars, hsVars, torVars, alignVars, stgVars, softVars, dbgVars>>
    /\ UNCHANGED <<stepVars, loadVars, dutVars, memVars, modVars, runVars, walkVars, lateFour, lastButMux>>

MuxUpdate ==
    /\ mux_pc = "propagated"
    /\ mux' = MuxDynamic_update(mux)
    /\ mux_pc' = "updated"
    /\ UNCHANGED <<cosimVars, hsVars, torVars, alignVars, stgVars, softVars, dbgVars>>
    /\ UNCHANGED <<stepVars, loadVars, dutVars, memVars, modVars, runVars, walkVars, lateFour, lastButMux>>

NextMux == MuxDrive \/ MuxPropagate \/ MuxUpdate

(***************************************************************************)
(* Section 19.  A ValueTiming (basetype.rs).                               *)
(*                                                                         *)
(* The owner of the value sets it, reads it, updates it at the end of a    *)
(* cycle and clears it.  staged is the value set last in the cycle, ERROR  *)
(* if there is none; committed lists what was staged at every update       *)
(* since the value was built or cleared.                                   *)
(***************************************************************************)
\* the largest depth of a ValueTiming
MaxTiming == 3

\* the updates that are followed
MaxUpdates == 4

\* ValueTiming::new
ValueTiming_new(depth) ==
    [depth |-> depth, queue |-> [i \in 1..depth |-> ERROR], new_value |-> ERROR]

\* ValueTiming::set_value
ValueTiming_set_value(t, val) == [t EXCEPT !.new_value = val]

\* ValueTiming::get_value
ValueTiming_get_value(t) == IF t.depth > 0 THEN Head(t.queue) ELSE t.new_value

\* an update that puts the staged value at the front of the queue
ValueTiming_update_front(t) ==
    IF t.depth > 0
    THEN [t EXCEPT !.queue = <<t.new_value>> \o SubSeq(@, 1, Len(@) - 1), !.new_value = ERROR]
    ELSE [t EXCEPT !.new_value = ERROR]

\* ValueTiming::update
ValueTiming_update(t) ==
    IF t.depth > 0
    THEN [t EXCEPT !.queue = Append(Tail(@), t.new_value), !.new_value = ERROR]
    ELSE [t EXCEPT !.new_value = ERROR]

\* ValueTiming::clear
ValueTiming_clear(t) ==
    [t EXCEPT !.new_value = ERROR, !.queue = [i \in 1..Len(@) |-> ERROR]]

InitTimed ==
    /\ timed \in {ValueTiming_new(d) : d \in 0..MaxTiming}
    /\ staged = ERROR
    /\ committed = << >>

IdleTimed ==
    /\ timed = ValueTiming_new(0)
    /\ staged = ERROR
    /\ committed = << >>

TimedSet ==
    /\ \E val \in DutData :
         /\ timed' = ValueTiming_set_value(timed, val)
         /\ staged' = val
    /\ UNCHANGED committed
    /\ UNCHANGED <<cosimVars, hsVars, torVars, alignVars, stgVars, softVars, dbgVars>>
    /\ UNCHANGED <<stepVars, loadVars, dutVars, memVars, modVars, runVars, walkVars, lateFour, lastButTimed>>

TimedUpdate ==
    /\ Len(committed) < MaxUpdates
    /\ timed' = ValueTiming_update(timed)
    /\ staged' = ERROR
    /\ committed' = Append(committed, staged)
    /\ UNCHANGED <<cosimVars, hsVars, torVars, alignVars, stgVars, softVars, dbgVars>>
    /\ UNCHANGED <<stepVars, loadVars, dutVars, memVars, modVars, runVars, walkVars, lateFour, lastButTimed>>

TimedClear ==
    /\ timed' = ValueTiming_clear(timed)
    /\ staged' = ERROR
    /\ committed' = << >>
    /\ UNCHANGED <<cosimVars, hsVars, torVars, alignVars, stgVars, softVars, dbgVars>>
    /\ UNCHANGED <<stepVars, loadVars, dutVars, memVars, modVars, runVars, walkVars, lateFour, lastButTimed>>

NextTimed == TimedSet \/ TimedUpdate \/ TimedClear

(***************************************************************************)
(* Section 20.  A pipelined for of HEC (hec.rs).                           *)
(*                                                                         *)
(* The instance holds the stages in flight, cur_stages, the most recent    *)
(* at the front, each as the index of the stage that it executes next,     *)
(* and in its environment the wire i and the port done (a set, empty when  *)
(* the name is not in the environment).  The loop is control = (lb, ub,    *)
(* step) with nstages stages and the initiation interval ii.               *)
(***************************************************************************)
\* the largest number of stages
MaxStages == 3

\* the largest lower bound
MaxLb == 1

\* the largest step of the induction variable
MaxInc == 2

\* the loops
PipeFors ==
    [ii : 1..(MaxStages + 1), nstages : 1..MaxStages, lb : 0..MaxLb, ub : 0..MaxUb,
     inc : 1..MaxInc]

\* an instance that no go has reached
PipeFor_new ==
    [cur_stages |-> << >>, i |-> {}, done |-> {}, stall |-> FALSE, active |-> FALSE]

\* PipeFor::init
PipeFor_init(p, fn) ==
    IF fn.lb <= fn.ub
    THEN [p EXCEPT !.cur_stages = <<0>>, !.i = {fn.lb}, !.done = {FALSE}]
    ELSE [p EXCEPT !.done = {TRUE}]

\* a pipeline that takes a new iteration in every cycle
issue_due_always(cur, fn) == TRUE

\* the most recently entered iteration has made ii steps
issue_due(cur, fn) == Head(cur) = fn.ii

\* PipeFor::step past its early return: the stages advance, an iteration is
\* issued, the oldest iteration leaves
advance(p, fn) ==
    LET stepped == [k \in 1..Len(p.cur_stages) |-> p.cur_stages[k] + 1]
        new_iter == (CHOOSE x \in p.i : TRUE) + fn.inc
        issuing == issue_due(stepped, fn) /\ new_iter <= fn.ub
        with_new == IF issuing THEN <<0>> \o stepped ELSE stepped
        at_end == with_new[Len(with_new)] = fn.nstages
        kept == IF at_end THEN SubSeq(with_new, 1, Len(with_new) - 1) ELSE with_new
    IN  [p EXCEPT !.cur_stages = kept,
                  !.i = IF issuing THEN {new_iter} ELSE @,
                  !.done = {at_end /\ kept = << >>},
                  !.active = ~(at_end /\ kept = << >>)]

\* PipeFor::step and what Instance::step makes of the returned flag
PipeFor_step(p, fn) ==
    IF p.cur_stages = << >>
    THEN [p EXCEPT !.done = {FALSE}, !.active = FALSE]
    ELSE advance(p, fn)

\* Instance::step of a PipeFor instance; ok is the result of check_stream,
\* which is true when no stage is in flight
Instance_step_pipe(p, fn, ok) ==
    LET q == IF p.cur_stages = << >> THEN PipeFor_init(p, fn) ELSE p
    IN  IF ok \/ q.cur_stages = << >>
        THEN PipeFor_step([q EXCEPT !.stall = FALSE], fn)
        ELSE [q EXCEPT !.done = {FALSE}, !.stall = TRUE]

\* Instance::update of a PipeFor instance: StaticEnv::update(true) keeps i
\* and clears the rest of the environment
Instance_update_pipe(p) ==
    IF ~p.stall /\ p.i # {} THEN [p EXCEPT !.done = {}] ELSE p

InitPf ==
    /\ pf_fn \in PipeFors
    /\ pf = PipeFor_new
    /\ pf_pc = "idle"
    /\ pf_clock = 0
    /\ issued = << >>

IdlePf ==
    /\ pf_fn = [ii |-> 1, nstages |-> 1, lb |-> 0, ub |-> 0, inc |-> 1]
    /\ pf = PipeFor_new
    /\ pf_pc = "idle"
    /\ pf_clock = 0
    /\ issued = << >>

\* a go of the parent activates the instance
PfGo ==
    /\ pf_pc = "idle"
    /\ ~pf.active
    /\ pf' = [pf EXCEPT !.active = TRUE]
    /\ pf_clock' = 0
    /\ issued' = << >>
    /\ UNCHANGED <<pf_fn, pf_pc>>
    /\ UNCHANGED <<cosimVars, hsVars, torVars, alignVars, stgVars, softVars, dbgVars>>
    /\ UNCHANGED <<stepVars, loadVars, dutVars, memVars, modVars, runVars, walkVars, lateFour, lastButPf>>

\* the step of the instance in a cycle; the steps of the pipeline are
\* counted and the entry of an iteration is recorded with the count
PfStep ==
    /\ pf_pc = "idle"
    /\ pf.active
    /\ \E ok \in BOOLEAN :
         \E q \in {Instance_step_pipe(pf, pf_fn, ok)} :
            /\ pf' = q
            /\ pf_clock' = IF q.stall THEN pf_clock ELSE pf_clock + 1
            /\ issued' =
                  (IF pf.cur_stages = << >> /\ pf_fn.lb <= pf_fn.ub
                   THEN <<pf_clock>> ELSE issued)
                  \o (IF ~q.stall /\ q.cur_stages # << >> /\ Head(q.cur_stages) = 0
                      THEN <<pf_clock + 1>> ELSE << >>)
    /\ pf_pc' = "stepped"
    /\ UNCHANGED pf_fn
    /\ UNCHANGED <<cosimVars, hsVars, torVars, alignVars, stgVars, softVars, dbgVars>>
    /\ UNCHANGED <<stepVars, loadVars, dutVars, memVars, modVars, runVars, walkVars, lateFour, lastButPf>>

\* the update of the instance at the end of the cycle
PfUpdate ==
    /\ pf_pc = "stepped"
    /\ pf' = Instance_update_pipe(pf)
    /\ pf_pc' = "idle"
    /\ UNCHANGED <<pf_fn, pf_clock, issued>>
    /\ UNCHANGED <<cosimVars, hsVars, torVars, alignVars, stgVars, softVars, dbgVars>>
    /\ UNCHANGED <<stepVars, loadVars, dutVars, memVars, modVars, runVars, walkVars, lateFour, lastButPf>>

NextPf == PfGo \/ PfStep \/ PfUpdate

(***************************************************************************)
(* Section 21.  The queues of the engines (basetype.rs, hec.rs, tor.rs).   *)
(*                                                                         *)
(* One HEC FIFO f and one ToR Stream s, with the operations that the       *)
(* engines perform on them.  In a cycle of the HEC engine the STG          *)
(* instances step: a state whose ops enable ports of f names them in its   *)
(* streams[]; at the end of the cycle the FIFO is updated.  An instance of *)
(* the ACTIVE list is stepped by Instance::step, after the test of         *)
(* streams[]; the go of an inactive sub-instance steps the initial state   *)
(* of the sub-instance directly.  A step of a ToR edge with a stream       *)
(* operation follows the test of the edge.                                 *)
(***************************************************************************)
\* the largest declared depth of a queue
MaxQueue == 2

\* the elements beyond its depth that a queue is followed to
MaxOver == 1

\* the values that are written to the queues
QueueData == {U32(0), U32(1)}

\* FIFO::new; the three ports are ValueTimings of depth 0
FIFO_new(depth) ==
    [store |-> << >>, depth |-> depth, r_en |-> ERROR, w_en |-> ERROR,
     r_data |-> ERROR, w_data |-> ERROR]

\* FIFO::set_port
FIFO_set_port(f, pname, val) ==
    CASE pname = "r_en" -> [f EXCEPT !.r_en = val]
      [] pname = "w_en" -> [f EXCEPT !.w_en = val]
      [] pname = "w_data" -> [f EXCEPT !.w_data = val]
      [] OTHER -> f

\* FIFO::update: the read pops, the write pushes, the ports are cleared;
\* ok is false when the assertion on the popped element fails, which ends
\* the run
FIFO_update(f) ==
    LET r_on == f.r_en = Bool(TRUE)
        popped == IF r_on /\ f.store # << >> THEN Tail(f.store) ELSE f.store
    IN  IF r_on /\ f.store = << >> THEN [ok |-> FALSE, f |-> f]
        ELSE
        [ok |-> TRUE,
         f |-> [f EXCEPT !.store = IF f.w_en = Bool(TRUE) THEN Append(popped, f.w_data)
                                  ELSE popped,
                         !.r_data = IF r_on /\ f.store # << >> THEN Head(f.store) ELSE @,
                         !.r_en = ERROR, !.w_en = ERROR, !.w_data = ERROR]]

\* Stream::new
Stream_new(depth) == [store |-> << >>, depth |-> depth]

\* FIFO::is_empty and Stream::is_empty
queue_is_empty(q) == q.store = << >>

\* FIFO::is_full and Stream::is_full
queue_is_full(q) == Len(q.store) = q.depth

\* Stream::push
Stream_push(q, val) == [q EXCEPT !.store = Append(@, val)]

\* Stream::pop: ok is false when pop_front() has nothing to unwrap
Stream_pop(q) ==
    [ok |-> q.store # << >>, q |-> [q EXCEPT !.store = IF @ = << >> THEN @ ELSE Tail(@)]]

\* State::check_stream for a state whose streams[] are ports of f
State_check_ports(ports, f) ==
    /\ "r_en" \in ports => ~queue_is_empty(f)
    /\ "w_en" \in ports => ~queue_is_full(f)

\* the ops of a state that enables ports of f: the enables, and the assign
\* of the written value
state_enables(f, ports, val) ==
    LET f1 == IF "r_en" \in ports THEN FIFO_set_port(f, "r_en", Bool(TRUE)) ELSE f
    IN  IF "w_en" \in ports
        THEN FIFO_set_port(FIFO_set_port(f1, "w_en", Bool(TRUE)), "w_data", val)
        ELSE f1

\* StreamOperation::check
StreamOperation_check(op, q) ==
    IF op = "Read" THEN ~queue_is_empty(q) ELSE ~queue_is_full(q)

\* the sets of ports that a state can enable
PortSets == {{"r_en"}, {"w_en"}, {"r_en", "w_en"}}

InitQueue ==
    /\ fifo \in {FIFO_new(d) : d \in 1..MaxQueue}
    /\ strm \in {Stream_new(d) : d \in 1..MaxQueue}
    /\ q_fail = "none"
    /\ unguarded = FALSE

IdleQueue ==
    /\ fifo = FIFO_new(1)
    /\ strm = Stream_new(1)
    /\ q_fail = "none"
    /\ unguarded = FALSE

\* Instance::step of an instance of the ACTIVE list whose state enables
\* ports of f: the state is stepped if its streams are ready, else the
\* instance stalls
ActiveStep ==
    /\ q_fail = "none"
    /\ \E ports \in PortSets, val \in QueueData :
         fifo' = IF State_check_ports(ports, fifo) THEN state_enables(fifo, ports, val)
                 ELSE fifo
    /\ UNCHANGED <<strm, q_fail, unguarded>>
    /\ UNCHANGED <<cosimVars, hsVars, torVars, alignVars, stgVars, softVars, dbgVars>>
    /\ UNCHANGED <<stepVars, loadVars, dutVars, memVars, modVars, runVars, walkVars, lateFour, lastButQueue>>

\* the go of an inactive static sub-instance in STG::step: the initial state
\* of the sub-instance is stepped at once
GoStep ==
    /\ q_fail = "none"
    /\ \E ports \in PortSets, val \in QueueData :
         fifo' = state_enables(fifo, ports, val)
    /\ unguarded' = TRUE
    /\ UNCHANGED <<strm, q_fail>>
    /\ UNCHANGED <<cosimVars, hsVars, torVars, alignVars, stgVars, softVars, dbgVars>>
    /\ UNCHANGED <<stepVars, loadVars, dutVars, memVars, modVars, runVars, walkVars, lateFour, lastButQueue>>

\* the end of a cycle of hec::step: FIFO::update of every FIFO
FifoUpdate ==
    /\ q_fail = "none"
    /\ fifo.w_en = Bool(TRUE) => Len(fifo.store) < fifo.depth + MaxOver
    /\ \E r \in {FIFO_update(fifo)} :
         /\ fifo' = r.f
         /\ q_fail' = IF r.ok THEN "none" ELSE "fifo"
    /\ UNCHANGED <<strm, unguarded>>
    /\ UNCHANGED <<cosimVars, hsVars, torVars, alignVars, stgVars, softVars, dbgVars>>
    /\ UNCHANGED <<stepVars, loadVars, dutVars, memVars, modVars, runVars, walkVars, lateFour, lastButQueue>>

\* a cycle of a ToR time graph on an edge with one operation on s: the edge
\* is stepped, and the operation executed, if Edge::check_stream holds
EdgeStep ==
    /\ q_fail = "none"
    /\ \E op \in {"Read", "Write"}, val \in QueueData :
         IF ~StreamOperation_check(op, strm) THEN UNCHANGED <<strm, q_fail>>
         ELSE IF op = "Write" THEN strm' = Stream_push(strm, val) /\ UNCHANGED q_fail
         ELSE \E r \in {Stream_pop(strm)} :
                /\ strm' = r.q
                /\ q_fail' = IF r.ok THEN "none" ELSE "stream"
    /\ UNCHANGED <<fifo, unguarded>>
    /\ UNCHANGED <<cosimVars, hsVars, torVars, alignVars, stgVars, softVars, dbgVars>>
    /\ UNCHANGED <<stepVars, loadVars, dutVars, memVars, modVars, runVars, walkVars, lateFour, lastButQueue>>

NextQueue == ActiveStep \/ GoStep \/ FifoUpdate \/ EdgeStep

\* the sections 18 onwards before any of their operations
IdleLast == IdleMux /\ IdleTimed /\ IdlePf /\ IdleQueue

IdleLastButMux == IdleTimed /\ IdlePf /\ IdleQueue

IdleLastButTimed == IdleMux /\ IdlePf /\ IdleQueue

IdleLastButPf == IdleMux /\ IdleTimed /\ IdleQueue

IdleLastButQueue == IdleMux /\ IdleTimed /\ IdlePf

\* the sections 14 to 17 before any of their operations
IdleLateFour == IdleCall /\ IdleRet /\ IdleCast /\ IdlePart

\* the sections 14 onwards before any of their operations
IdleLate == IdleLateFour /\ IdleLast

\* the sections 14 onwards but one before any of their operations
IdleLateButCall == IdleRet /\ IdleCast /\ IdlePart /\ IdleLast

IdleLateButRet == IdleCall /\ IdleCast /\ IdlePart /\ IdleLast

IdleLateButCast == IdleCall /\ IdleRet /\ IdlePart /\ IdleLast

IdleLateButPart == IdleCall /\ IdleRet /\ IdleCast /\ IdleLast

\* the sections 7 onwards before any of their operations
IdleExt == InitStep /\ InitLoad /\ IdleDut /\ IdleMem /\ IdleModule /\ InitRun
    /\ IdleWalk /\ IdleLate

(***************************************************************************)
(* Specifications.  Each one starts the section it runs from every initial *)
(* state of that section and leaves the other sections idle.               *)
(***************************************************************************)
StartCosim == InitCosim /\ IdleHS /\ IdleTor /\ IdleAlign /\ IdleStg
    /\ IdleSoft /\ IdleDbg /\ IdleExt

SpecCosim == StartCosim /\ [][NextCosim]_vars

StartSkew == InitSkew /\ IdleHS /\ IdleTor /\ IdleAlign /\ IdleStg
    /\ IdleSoft /\ IdleDbg /\ IdleExt

SpecSkew == StartSkew /\ [][NextSkew]_vars

\* cosim() is a loop without a wait: it keeps iterating until it breaks
FairSkew == StartSkew /\ [][NextSkew]_vars /\ WF_vars(NextSkew)

StartHS == IdleCosim /\ InitHS /\ IdleTor /\ IdleAlign /\ IdleStg
    /\ IdleSoft /\ IdleDbg /\ IdleExt

SpecHS == StartHS /\ [][NextHS]_vars

\* step() runs the work-list loop to its end before it does anything else
FairHS == StartHS /\ [][NextHS]_vars /\ WF_vars(PropagateUnit)

StartTor == IdleCosim /\ IdleHS /\ InitTor /\ IdleAlign /\ IdleStg
    /\ IdleSoft /\ IdleDbg /\ IdleExt

SpecTor == StartTor /\ [][NextTor]_vars

StartAlign == IdleCosim /\ IdleHS /\ IdleTor /\ InitAlign /\ IdleStg
    /\ IdleSoft /\ IdleDbg /\ IdleExt

SpecAlign == StartAlign /\ [][NextAlign]_vars

StartStg == IdleCosim /\ IdleHS /\ IdleTor /\ IdleAlign /\ InitStg
    /\ IdleSoft /\ IdleDbg /\ IdleExt

SpecStg == StartStg /\ [][NextStg]_vars

StartDbg == IdleCosim /\ IdleHS /\ IdleTor /\ IdleAlign /\ IdleStg
    /\ InitSoft /\ InitDbg /\ IdleExt

SpecDbg == StartDbg /\ [][NextDbg]_vars

StartStep == IdleCosim /\ IdleHS /\ IdleTor /\ IdleAlign /\ IdleStg
    /\ InitSoft /\ InitDbg /\ InitStep /\ InitLoad /\ IdleDut /\ IdleMem /\ IdleModule /\ InitRun /\ IdleWalk /\ IdleLate

SpecStep == StartStep /\ [][NextStep]_vars

StartLoad == IdleCosim /\ IdleHS /\ IdleTor /\ IdleAlign /\ IdleStg
    /\ IdleSoft /\ IdleDbg /\ InitStep /\ InitLoad /\ IdleDut /\ IdleMem /\ IdleModule /\ InitRun /\ IdleWalk /\ IdleLate

SpecLoad == StartLoad /\ [][NextLoad]_vars

StartDut == IdleCosim /\ IdleHS /\ IdleTor /\ IdleAlign /\ IdleStg
    /\ IdleSoft /\ IdleDbg /\ InitStep /\ InitLoad /\ InitDut /\ IdleMem /\ IdleModule /\ InitRun /\ IdleWalk /\ IdleLate

SpecDut == StartDut /\ [][NextDut]_vars

StartMem == IdleCosim /\ IdleHS /\ IdleTor /\ IdleAlign /\ IdleStg
    /\ IdleSoft /\ IdleDbg /\ InitStep /\ InitLoad /\ IdleDut /\ InitMem /\ IdleModule /\ InitRun /\ IdleWalk /\ IdleLate

SpecMem == StartMem /\ [][NextMem]_vars

StartSink == IdleCosim /\ InitSink /\ IdleTor /\ IdleAlign /\ IdleStg
    /\ IdleSoft /\ IdleDbg /\ InitStep /\ InitLoad /\ IdleDut /\ IdleMem /\ InitRun /\ IdleWalk /\ IdleLate

SpecSink == StartSink /\ [][NextHS]_vars

SpecRun == StartHS /\ [][NextRun]_vars

StartProg == IdleCosim /\ IdleHS /\ IdleTor /\ IdleAlign /\ IdleStg
    /\ InitProg /\ IdleDbg /\ IdleExt

SpecProg == StartProg /\ [][NextProg]_vars

StartBreak == IdleCosim /\ IdleHS /\ IdleTor /\ IdleAlign /\ IdleStg
    /\ InitProg /\ InitBreak /\ IdleExt

SpecBreak == StartBreak /\ [][NextBreak]_vars

StartWalk == IdleCosim /\ IdleHS /\ IdleTor /\ IdleAlign /\ IdleStg
    /\ IdleSoft /\ IdleDbg /\ InitStep /\ InitLoad /\ IdleDut /\ IdleMem /\ IdleModule /\ InitRun /\ IdleLate
    /\ InitWalk

SpecWalk == StartWalk /\ [][NextWalk]_vars

StartCall == IdleCosim /\ IdleHS /\ IdleTor /\ IdleAlign /\ IdleStg
    /\ IdleSoft /\ IdleDbg /\ InitStep /\ InitLoad /\ IdleDut /\ IdleMem /\ IdleModule /\ InitRun
    /\ IdleWalk /\ InitCall /\ IdleLateButCall

SpecCall == StartCall /\ [][NextCall]_vars

StartRet == IdleCosim /\ IdleHS /\ IdleTor /\ IdleAlign /\ IdleStg
    /\ IdleSoft /\ IdleDbg /\ InitStep /\ InitLoad /\ IdleDut /\ IdleMem /\ IdleModule /\ InitRun
    /\ IdleWalk /\ InitRet /\ IdleLateButRet

SpecRet == StartRet /\ [][NextRet]_vars

StartCast == IdleCosim /\ IdleHS /\ IdleTor /\ IdleAlign /\ IdleStg
    /\ IdleSoft /\ IdleDbg /\ InitStep /\ InitLoad /\ IdleDut /\ IdleMem /\ IdleModule /\ InitRun
    /\ IdleWalk /\ InitCast /\ IdleLateButCast

SpecCast == StartCast /\ [][NextCast]_vars

StartPart == IdleCosim /\ IdleHS /\ IdleTor /\ IdleAlign /\ IdleStg
    /\ IdleSoft /\ IdleDbg /\ InitStep /\ InitLoad /\ IdleDut /\ IdleMem /\ IdleModule /\ InitRun
    /\ IdleWalk /\ InitPart /\ IdleLateButPart

SpecPart == StartPart /\ [][NextPart]_vars

\* the sections 1 to 17 before any of their operations
IdleEarly == IdleCosim /\ IdleHS /\ IdleTor /\ IdleAlign /\ IdleStg
    /\ IdleSoft /\ IdleDbg /\ InitStep /\ InitLoad /\ IdleDut /\ IdleMem /\ IdleModule /\ InitRun
    /\ IdleWalk /\ IdleLateFour

StartMux == IdleEarly /\ InitMux /\ IdleLastButMux

SpecMux == StartMux /\ [][NextMux]_vars

StartTimed == IdleEarly /\ InitTimed /\ IdleLastButTimed

SpecTimed == StartTimed /\ [][NextTimed]_vars

StartPf == IdleEarly /\ InitPf /\ IdleLastButPf

SpecPf == StartPf /\ [][NextPf]_vars

StartQueue == IdleEarly /\ InitQueue /\ IdleLastButQueue

SpecQueue == StartQueue /\ [][NextQueue]_vars

(***************************************************************************)
(* Properties.                                                             *)
(***************************************************************************)
\* the orders in which the units of a work-list can be queued
orders_of(list) ==
    {[i \in 1..Len(list) |-> list[f[i]]] : f \in Permutations(1..Len(list))}

\* the (valid, ready, data) of every port of every unit
port_values(h) == [n \in Units |-> h.env[n].p]


\* C1: once the work-list has drained, propagate() called again on any unit
\* reports no changed port.
C1_PropagationIdempotent ==
    (hs_pc = "propagate" /\ update_list = << >>)
        => \A n \in Units : unit_propagate(env[n]).ch = << >>

\* the work-list has drained in a cycle in which a token reached the adder
C1_Witness ==
    /\ hs_pc = "propagate"
    /\ update_list = << >>
    /\ env["add0"].p.result.valid
    /\ as_bool(env["buf0"].oehb.full_reg.value)

\* C2: from every reachable register state and input setting, the per-cycle
\* work-list propagation empties the work-list after finitely many unit
\* propagations.
C2_PropagationTerminates ==
    (hs_pc = "propagate") ~> (update_list = << >>)

\* a drained work-list in a cycle that started with a buffered token, a
\* stalled fork output and a valid input
C2_Witness ==
    /\ hs_pc = "propagate"
    /\ update_list = << >>
    /\ as_bool(env["buf0"].oehb.full_reg.value)
    /\ ~as_bool(env["fork0"].sub_reg[1].value)
    /\ env["const0"].p.control.valid

\* C3: the settled port values at the end of a cycle's propagation are the
\* same for every order in which the queued units are drained.
C3_OrderIndependent ==
    hs_pc = "idle" =>
        \A g \in {drain(hs_now, DrainFuel)} :
            \A q \in orders_of(update_list) :
                \A h \in {drain([hs_now EXCEPT !.update_list = q], DrainFuel)} :
                    h.update_list = << >> /\ port_values(h) = port_values(g)

\* a cycle is about to start with several units queued and a token in flight
C3_Witness ==
    /\ hs_pc = "idle"
    /\ Len(update_list) >= 3
    /\ env["fork0"].p.data_in.valid
    /\ as_bool(env["buf0"].oehb.full_reg.value)

\* C7: iteration k+1 is never in flight before iteration k has consumed at
\* least ii+1 header-cycles (iter_cycle counts): every stage that has a
\* successor stage has an iter_cycle of at least ii+1.
C7_EntryAfterHeaderCycles ==
    \A k \in 1..(Len(stages) - 1) : stages[k].iter_cycle >= tor_fn.ii + 1

\* a new iteration has just entered behind one that is still in the body
C7_Witness ==
    /\ Len(stages) >= 2
    /\ stages[Len(stages)].iter_cycle = 1
    /\ tor_fn.ii = 2
    /\ tor_env[Len(stages)].i = tor_env[Len(stages) - 1].i + 1

TorNoPanic == tor_active # "panic"

\* the stage that PipelineTimeGraph::new puts on the BeginIf node
if_stage == [node |-> IfStart, edge_cycle |-> 0, iter_cycle |-> 0, if_emitted |-> FALSE]

\* C8: after the alignment rewrite the total edge latency from the BeginIf
\* node to its if-end node is the same along both branches.
C8_BranchesEquallyLong ==
    if_pc = "aligned" => total_edge_latency(if_graph, 1) = total_edge_latency(if_graph, 2)

\* after the alignment rewrite a stage takes the same number of cycles from
\* the BeginIf node to the if-end node whichever branch it takes
BranchesTakeSameCycles ==
    if_pc = "aligned" =>
        cycles_to_end(if_graph, if_stage, TRUE) = cycles_to_end(if_graph, if_stage, FALSE)

\* the same, for the graphs whose BeginIf edges are loaded as plain "static"
StaticBranchesTakeSameCycles ==
    if_pc = "loaded" /\ (\A b \in 1..2 : if_graph[IfStart][b].edge_type = "static") =>
        \A g \in {get_aligned_latency(if_graph)} :
            cycles_to_end(g, if_stage, TRUE) = cycles_to_end(g, if_stage, FALSE)

\* a streams[] guard of the current state of instance i is not ready
stream_blocked(i) == stg(hec_mod)[i][insts[i].state].streams /\ fifo_empty

\* C9: in a step in which a streams[] guard of an instance's current state
\* is not ready, the state of the instance does not change and its done is
\* not asserted.
C9_StallKeepsState ==
    [][\A i \in HecInsts :
         stream_blocked(i) => insts'[i].state = insts[i].state /\ i \notin done_asserted']_vars

\* the same for the instances that hec::step takes from the ACTIVE list in a
\* state other than a done state
ActiveStallKeepsState ==
    [][\A i \in HecInsts :
         /\ stream_blocked(i)
         /\ \E k \in 1..Len(hec_ACTIVE) : hec_ACTIVE[k] = i
         /\ ~stg(hec_mod)[i][insts[i].state].done
         => insts'[i].state = insts[i].state /\ i \notin done_asserted']_vars

\* the watchpoint lines of the engine of DEBUG_STATE in the current state
Watched ==
    CASE DEBUG_STATE = "Software" -> soft_watch(VARIABLE_VALUE, WATCHPOINT)
      [] DEBUG_STATE = "ToR" -> tor_watch(tor_active, tor_env, WATCHPOINT)
      [] DEBUG_STATE = "HEC" -> hec_watch(hec_ACTIVE, hec_reg, WATCHPOINT)

\* C10: a cycle that stops at a breakpoint leaves the operation stack, the
\* active lists and the environments of the engines as they were and prints
\* no watchpoint; any other cycle prints the watchpoints with the values
\* they have after the cycle.
C10_BreakBeforeWatchAfter ==
    [][/\ break_hit' => UNCHANGED <<softVars, torVars, stgVars>> /\ printed' = printed
       /\ ~break_hit' => printed' = print_lines(Watched', printed)]_vars

\* the ToR engine has stopped at a breakpoint with two iterations in flight,
\* after a cycle that printed a watched value
C10_Witness ==
    /\ DEBUG_STATE = "ToR"
    /\ break_hit
    /\ Len(stages) >= 2
    /\ \E line \in printed : line[3] > 0

\* C4: when cosim() terminates the skewed queue of every mapping is empty,
\* every high-side value having been matched by one low-side value.
C4_QueueEmptyAtTermination ==
    cs_pc = "success" => store = << >>

\* C5: a mismatch aborts the run with a message naming the operation, the
\* primitive and the end-state, whichever side detects it.
C5_MismatchNamesMapping ==
    cs_pc = "panic" => cs_msg = MsgNamed

\* C6: "Cosimulation success" is printed only in a state where both the ToR
\* side and the HEC side report finish.
C6_SuccessOnlyWhenBothFinished ==
    cs_pc = "success" => tor_finish /\ hec_finish

\* success reported for a mapped pair of runs that were both stepped
C6_Witness ==
    cs_pc = "success" /\ mapped /\ store = << >> /\ ~high

\* the engine of DEBUG_STATE has nothing left to run
active_empty ==
    CASE DEBUG_STATE = "Software" -> OPERATION_STACK = << >>
      [] DEBUG_STATE = "ToR" -> tor_active # "active"
      [] DEBUG_STATE = "HEC" -> hec_ACTIVE = << >>

\* C11: a call step(N) runs at most N cycles of the selected engine, and
\* fewer than N only if the engine has nothing left to run or a breakpoint
\* has fired.
C11_StepBounded ==
    step_depth > 0 /\ tor_active # "panic" =>
        /\ step_cycle <= step_depth
        /\ step_cycle < step_depth => active_empty \/ break_hit

\* a call of depth MaxDepth has stopped at a breakpoint after one cycle, with
\* the instance still active
C11_Witness ==
    /\ DEBUG_STATE = "ToR"
    /\ step_depth = MaxDepth
    /\ step_cycle = 1
    /\ break_hit
    /\ ~active_empty

\* the file of the last load command could not be loaded
load_failed == ~load_file.json \/ load_file.level \notin Levels \/ ~load_file.complete

\* C12: a load that fails (malformed JSON, missing field, unknown level) is
\* reported to the user and leaves the current-level selector, the
\* loaded-level flags and the tables as they were.
C12_FailedLoadKeepsState ==
    [][load_failed' => load_report' = "failed" /\ UNCHANGED <<DEBUG_STATE, HAS, TABLES>>]_vars

\* a load of malformed JSON is reported and changes nothing
MalformedLoadKeepsState ==
    [][~load_file'.json => load_report' = "failed" /\ UNCHANGED <<DEBUG_STATE, HAS, TABLES>>]_vars

\* a Fork whose sub-registers hold their reset value, with a valid producer
\* and two ready consumers
fork_offered ==
    /\ dut.kind = "fork"
    /\ \A i \in 1..2 : dut.sub_reg[i].value = Bool(TRUE)
    /\ dut.p["data_in"].valid
    /\ \A i \in 1..2 : dut.p[ForkOut[i]].ready

dm_scenario(c) ==
    /\ dm_test.issue = <<3, 1>>
    /\ dm_test.ready = <<TRUE, TRUE>>
    /\ dm_pc = "propagated"
    /\ dm_test.cycle = c

\* C14: with the load addresses 3 and 1 issued in the same cycle and both
\* outputs ready, cycle 1 selects port 0 (arb_out_valid = 0) and delivers
\* nothing, cycle 2 delivers load_data[0] = 40 and selects port 1, cycle 3
\* delivers load_data[1] = 20.
C14_LoadsInPortOrder ==
    /\ dm_scenario(1) =>
          /\ dynmem.arb_out_valid.new_value = U64(0)
          /\ dynmem.address.new_value = U32(3)
          /\ \A i \in 1..2 : ~dynmem.p[LoadData[i]].valid
    /\ dm_scenario(2) =>
          /\ dynmem.p[LoadData[1]].valid /\ dynmem.p[LoadData[1]].data = I32(40)
          /\ dynmem.arb_out_valid.new_value = U64(1)
          /\ dynmem.address.new_value = U32(1)
    /\ dm_scenario(3) =>
          /\ dynmem.p[LoadData[2]].valid /\ dynmem.p[LoadData[2]].data = I32(20)

\* the third cycle of the run has delivered the word of address 1
C14_Witness ==
    /\ dm_scenario(3)
    /\ dynmem.p[LoadData[2]].data = I32(20)
    /\ dm_test.pending = <<-1, -1>>

\* propagation has come to its end in the current cycle
propagation_ended == hs_pc = "propagate" /\ update_list = << >>

\* C15 as stated: every port declared as a sink is ready at the end of the
\* propagation of every cycle.
C15_SinksReady ==
    propagation_ended => \A sink \in module_sinks : env[sink[1]].p[sink[2]].ready

\* C15: every port that is declared as a sink and named by no assign is
\* ready at the end of the propagation of every cycle.
C15_UnwiredSinksReady ==
    propagation_ended =>
        \A sink \in module_sinks : peers(sink) = << >> => env[sink[1]].p[sink[2]].ready

\* the propagation of a later cycle has ended with a sum on the sink
C15_Witness ==
    /\ propagation_ended
    /\ <<"add0", "result">> \in module_sinks
    /\ ~module_out
    /\ env["add0"].p.result.valid
    /\ as_bool(env["buf0"].oehb.full_reg.value)

\* no unit holds a valid signal on any port
quiescent == \A n \in Units : ~is_valid(env[n])

\* C16: a Handshake step run stops and reports the cycle count at the first
\* cycle after which all units are quiescent, whatever the depth and also
\* when that cycle is the last one of the depth: a call that returns with
\* all units quiescent has printed the cycle count.
C16_QuiescenceReported ==
    [][hs_steps' # hs_steps /\ hs_pc' = "idle" /\ quiescent' => hs_report' # -1]_vars

\* a round that is not the last one of the depth and leaves all units
\* quiescent ends the call with the cycle count printed
QuiescenceReportedBeforeLastRound ==
    [][hs_steps' # hs_steps /\ hs_pc' = "idle" /\ step_cycle' < step_depth'
         => hs_report' = step_cycle' - 1 /\ quiescent']_vars

\* the state of the unit that persists across cycles: the values of its
\* registers, the queue of a FIFO
persistent(u) ==
    CASE u.kind = "fork" -> [i \in DOMAIN u.sub_reg |-> u.sub_reg[i].value]
      [] u.kind = "buffer" -> <<u.tehb.full_reg.value, u.tehb.data_reg.value,
                                u.oehb.full_reg.value, u.oehb.data_reg.value>>
      [] u.kind = "fifo" -> u.queue

\* C17: propagate() leaves every register that persists across cycles
\* unchanged, however often it is called in a cycle; the persistent state
\* changes in update() only.
C17_OnlyUpdateChangesRegisters ==
    [][persistent(dut') # persistent(dut) => dut_pc = "propagated" /\ dut_pc' = "updated"]_vars

\* an ElasticBuffer that holds a token has been propagated with a change of
\* its registers pending
C17_Witness ==
    /\ dut.kind = "buffer"
    /\ dut_pc = "propagated"
    /\ as_bool(dut.oehb.full_reg.value)
    /\ dut.oehb.full_reg.enable = "True"
    /\ dut.oehb.full_reg.new_value # dut.oehb.full_reg.value

\* the top controller is a For whose current operation is a Yield
for_at_yield ==
    /\ OPERATION_STACK # << >>
    /\ OPERATION_STACK[Len(OPERATION_STACK)].kind = "For"
    /\ ~step_panics(OPERATION_STACK[Len(OPERATION_STACK)], VARIABLE_VALUE)
    /\ controller_op(OPERATION_STACK[Len(OPERATION_STACK)]).kind = "Yield"

\* C18: when a For controller evaluates a Yield, the loop continues exactly
\* when iter + step < ub, with the iterator advanced, the iter args
\* assigned from the yields and op_now reset to 0; otherwise the named
\* results take the yields in the variable map and the For leaves the
\* stack.
C18_ForYield ==
    [][for_at_yield /\ OPERATION_STACK' # OPERATION_STACK =>
         LET top == OPERATION_STACK[Len(OPERATION_STACK)]
             f == top.for_op
             yields == get_all_value(VARIABLE_VALUE, controller_op(top).operands)
             new_iter == as_u32(VARIABLE_VALUE[f.iter_name]) + as_u32(VARIABLE_VALUE[f.step])
         IN  IF new_iter < as_u32(VARIABLE_VALUE[f.ub])
             THEN /\ OPERATION_STACK' = [OPERATION_STACK EXCEPT
                                           ![Len(OPERATION_STACK)].op_now = 0]
                  /\ VARIABLE_VALUE'[f.iter_name] = U32(new_iter)
                  /\ \A j \in 1..Len(f.iter_args) :
                       VARIABLE_VALUE'[f.iter_args[j]] = yields[j]
             ELSE /\ OPERATION_STACK' = SubSeq(OPERATION_STACK, 1, Len(OPERATION_STACK) - 1)
                  /\ \A j \in 1..Len(f.names) :
                       /\ f.names[j] \in DOMAIN VARIABLE_VALUE'
                       /\ VARIABLE_VALUE'[f.names[j]] = yields[j]]_vars

\* the loop of sum has run three times and left, with 0 + 1 + 2 as its
\* result: the callee is at its return
C18_Witness ==
    /\ Len(OPERATION_STACK) = 2
    /\ OPERATION_STACK[2].kind = "Call"
    /\ "acc" \in DOMAIN VARIABLE_VALUE
    /\ VARIABLE_VALUE["acc"] = U32(3)
    /\ "i" \notin DOMAIN VARIABLE_VALUE

\* the top controller is at a Return
at_return ==
    /\ OPERATION_STACK # << >>
    /\ ~step_panics(OPERATION_STACK[Len(OPERATION_STACK)], VARIABLE_VALUE)
    /\ controller_op(OPERATION_STACK[Len(OPERATION_STACK)]).kind = "Return"

\* the position of the innermost Function or Call controller
innermost ==
    CHOOSE b \in 1..Len(OPERATION_STACK) :
      /\ OPERATION_STACK[b].kind \in {"Function", "Call"}
      /\ \A j \in (b + 1)..Len(OPERATION_STACK) :
           OPERATION_STACK[j].kind \notin {"Function", "Call"}

\* C19: a Return removes the controllers from the top down to the innermost
\* Function or Call controller, that one included, and none below it; when
\* that controller is a Call, the names of the call hold the returned
\* values afterwards.
C19_ReturnUnwinds ==
    [][at_return /\ OPERATION_STACK' # OPERATION_STACK =>
         LET top == OPERATION_STACK[Len(OPERATION_STACK)]
             vals == get_all_value(VARIABLE_VALUE, controller_op(top).operands)
             b == innermost
         IN  /\ OPERATION_STACK' = SubSeq(OPERATION_STACK, 1, b - 1)
             /\ OPERATION_STACK[b].kind = "Call" =>
                  \A j \in 1..Len(OPERATION_STACK[b].call_op.names) :
                    /\ OPERATION_STACK[b].call_op.names[j] \in DOMAIN VARIABLE_VALUE'
                    /\ VARIABLE_VALUE'[OPERATION_STACK[b].call_op.names[j]] = vals[j]]_vars

\* the return inside the If of the loop has unwound the If, the For and
\* the Call: main is back on top with the result of the call, and the
\* iterator of the abandoned loop is still in the variable map
C19_Witness ==
    /\ Len(OPERATION_STACK) = 1
    /\ OPERATION_STACK[1].op_now = 1
    /\ "r" \in DOMAIN VARIABLE_VALUE
    /\ "i" \in DOMAIN VARIABLE_VALUE

\* the walk is on the if-end node
at_if_end == ~walk_ret /\ current[1] = WalkIfEnd

\* the operand of the yield of the branch the last BeginIf took
taken_yield == if_node.yield_op[taken + 1][1]

\* C20: each time the static walk passes through the if-end node, the yield
\* of the branch taken has been committed into the name of the if exactly
\* once when the walk leaves the node, and the operations of the outgoing
\* edge see the committed value; so it is on every loop iteration.
C20_CommittedOnce ==
    [][at_if_end /\ current'[1] # WalkIfEnd =>
         /\ commits' = 1
         /\ walk_env'["x"] = walk_env[taken_yield]
         /\ walk_env'["y"] = add("u32", <<walk_env["acc"], walk_env[taken_yield]>>)]_vars

\* on the if-end node a step commits exactly when edge_cycle is 0, that is
\* on arrival and again in every cycle in which the stream of the outgoing
\* edge is not ready; every commit writes the yield of the branch taken,
\* and the operations of the outgoing edge see the committed value
C20_CommittedWhileWaiting ==
    [][at_if_end /\ current' # current =>
         /\ commits' = commits + 1 <=> current[2] = 0
         /\ commits' \in {commits, commits + 1}
         /\ walk_env'["x"] = walk_env[taken_yield]
         /\ current'[1] # WalkIfEnd =>
              /\ commits' >= 1
              /\ walk_env'["y"] = add("u32", <<walk_env["acc"], walk_env[taken_yield]>>)]_vars

\* the walk has left the if-end node in the second loop iteration, by the
\* else branch and after a cycle of waiting for the stream
C20_Witness ==
    /\ current[1] = 6
    /\ walk_env["i"] = U32(1)
    /\ taken = 1
    /\ commits = 2

\* the names of the operations of a list
op_names(ops) == {ops[j].name : j \in 1..Len(ops)}

\* the names of the operations of all edges of the graph
AllOpNames ==
    UNION {UNION {op_names(walk_graph(walk_fn)[n][j].ops) :
                    j \in 1..Len(walk_graph(walk_fn)[n])} : n \in 0..7}

\* the operations of the edge that the step from the present state fires:
\* those of the edge out of a Normal node that the walk leaves
fired_ops ==
    IF walk_node(current[1]) = "Normal" /\ current'[1] # current[1]
    THEN walk_graph(walk_fn)[current[1]][1].ops
    ELSE << >>

\* C21: in one cycle of the static walk at most one edge fires, and all its
\* operations are applied in the cycle of arrival: the results of the fired
\* edge all hold their computed value after the step, which is the step that
\* completes the latency of the edge, and the result of no other operation
\* changes, in particular not in an earlier cycle of a multi-cycle edge.
C21_OneEdgeAtArrival ==
    [][~walk_ret /\ (current' # current \/ walk_env' # walk_env) =>
         /\ \A j \in 1..Len(fired_ops) :
              /\ fired_ops[j].name \in DOMAIN walk_env'
              /\ walk_env'[fired_ops[j].name] = compute(fired_ops[j], walk_env')
         /\ fired_ops # << >> =>
              current[2] + 1 = get_latency(walk_graph(walk_fn)[current[1]][1])
         /\ \A name \in AllOpNames \ op_names(fired_ops) :
              /\ name \in DOMAIN walk_env' <=> name \in DOMAIN walk_env
              /\ name \in DOMAIN walk_env => walk_env'[name] = walk_env[name]]_vars

\* the walk is in the second cycle of the two-cycle edge out of node 5 in a
\* later loop iteration, with the result of the edge still the one of the
\* iteration before
C21_Witness ==
    /\ ~walk_ret
    /\ current = <<5, 1>>
    /\ walk_fn.lat = 2
    /\ "y" \in DOMAIN walk_env
    /\ walk_env["y"] # add("u32", <<walk_env["acc"], walk_env["x"]>>)

\* instance k exists and has not returned
alive(k) == k \in 1..Len(tor_insts) /\ ~tor_insts[k].done

\* instance k returns in this step
returns(k) == alive(k) /\ tor_insts'[k].done

\* the number of places instance k has on the ACTIVE list after the step
places(k) == Cardinality({j \in 1..Len(tor_ACTIVE') : tor_ACTIVE'[j] = k})

\* C22: an instance that has executed Call is inactive, off the ACTIVE
\* list and not stepped while its callee has not returned; in the cycle in
\* which the callee returns, the caller is made active and put on ACTIVE
\* once, with the names of the call bound to the returned values and the
\* walk on the node after the call.
C22_CallerWaitsForCallee ==
    [][\A k \in 1..Len(tor_insts) :
         alive(k) /\ tor_insts[k].father # 0 =>
           LET f == tor_insts[k].father
               node == call_node(tor_insts[f].function, tor_insts[f].current[1])
               values == get_all_value(tor_insts[k].env,
                             call_node(tor_insts[k].function,
                                       tor_insts[k].current[1]).operands)
           IN  /\ ~tor_insts[f].active
               /\ places(f) = IF returns(k) THEN 1 ELSE 0
               /\ tor_insts'[f].steps = tor_insts[f].steps
               /\ tor_insts'[f].active <=> returns(k)
               /\ returns(k) =>
                    /\ \A j \in 1..Len(node.names) :
                         /\ node.names[j] \in DOMAIN tor_insts'[f].env
                         /\ tor_insts'[f].env[node.names[j]] = values[j]
                    /\ tor_insts'[f].current =
                         <<call_graph(tor_insts[f].function,
                                      call_fn)[tor_insts[f].current[1] + 1][1].to, 0>>
               /\ ~returns(k) => tor_insts'[f] = tor_insts[f]]_vars

\* sub has returned to top after leaf had returned to sub: top is the only
\* active instance, on the node after its call, with the result bound
C22_Witness ==
    /\ Len(tor_insts) = 3
    /\ tor_insts[2].done /\ tor_insts[3].done
    /\ tor_ACTIVE = <<1>>
    /\ tor_insts[1].active
    /\ tor_insts[1].current = <<2, 0>>
    /\ "q" \in DOMAIN tor_insts[1].env

\* the value that both modules of section 15 return: the argument of the call
returned == U32(sg_arg)

\* the number of names of the done state of a module of section 15
done_names(i) == IF i = "sub" THEN sg_mod.done_len ELSE 1

\* C23: when a static instance steps in a state that has done, the values
\* of the names of done are written under the args num_in .. len - 2 (the
\* slice args[num_in..len - 1] without its upper end, as many as done has
\* names) and under no later arg, done is true, the STG is back in its
\* initial state, the instance is not active and not on the ACTIVE list
C23_DonePublishes ==
    \A i \in DOMAIN published :
        /\ published[i]["done"] = Bool(TRUE)
        /\ \A k \in (sg_num_in[i] + 1)..Len(sg_args[i]) :
              published[i][sg_args[i][k]] =
                  IF k < Len(sg_args[i]) /\ k - sg_num_in[i] <= done_names(i)
                  THEN returned ELSE Absent
        /\ sg_insts[i].state = sg_init_state[i]
        /\ ~sg_insts[i].active
        /\ \A k \in 1..Len(sg_ACTIVE) : sg_ACTIVE[k] # i

\* the callee has finished with more names in its done than args to return
\* them in, and its caller has seen done and latched the return
C23_Witness ==
    /\ "sub" \in DOMAIN published
    /\ sg_mod.done_len = 2
    /\ sg_arg = 2
    /\ published["sub"]["y0"] = U32(2)
    /\ sg_insts["top"].state = "t2"
    /\ sg_insts["top"].reg.queue = U32(2)

\* C24: an instance that a go has activated in a cycle has executed the
\* ops of no state in that cycle and is still in its initial state
C24_GoStepsNextCycle ==
    \A i \in went :
        /\ \A st \in {"u0", "u1", "u2"} : <<i, st>> \notin ran
        /\ sg_insts[i].state = sg_init_state[i]

\* an instance that a go has activated in a cycle is on the ACTIVE list, has
\* been updated once and has executed its initial state in that cycle
GoStepsAtOnce ==
    \A i \in went :
        /\ \E k \in 1..Len(sg_ACTIVE) : sg_ACTIVE[k] = i
        /\ sg_insts[i].active
        /\ updates[i] = 1
        /\ <<i, sg_init_state[i]>> \in ran
        /\ sg_insts[i].state = "u1"
        /\ sg_insts[i].reg.queue = returned

\* a cast from a type to a type that loses nothing: to the same type, or
\* from a Bool or an integer to a wider integer
lossless(from, to) ==
    \/ from = to /\ from \in CastTypes
    \/ /\ from \in {"bool", "i32", "u32"}
       /\ to \in {"i32", "u32", "i64", "u64"}
       /\ width(from) < width(to)

\* C25: convert(convert(v, T), U) is convert(v, U), the same variant with
\* the same payload, when the cast of v to T and the cast of T to U are
\* both lossless
C25_LosslessCastsCompose ==
    (/\ lossless(cast_v[1], cast_T)
     /\ lossless(cast_T, cast_U)
     /\ cast_out # NotCast
     /\ cast_direct # NotCast)
    => cast_out = cast_direct

\* the smallest i32 has been cast to i32 and then to i64, and to i64
C25_Witness ==
    /\ cast_v = <<"i32", [k \in 1..32 |-> IF k = 32 THEN 1 ELSE 0]>>
    /\ cast_T = "i32"
    /\ cast_U = "i64"
    /\ cast_out = <<"i64", [k \in 1..64 |-> IF k >= 32 THEN 1 ELSE 0]>>
    /\ cast_direct = cast_out

\* casts that lose something do not compose: 2^24 + 1 as an f64 cast to f32
\* and back is 2^24
LossyCastsDiffer ==
    /\ cast_v = <<"f64", Fin(0, [k \in 1..24 |-> IF k = 24 THEN 1 ELSE 0], 24)>>
    /\ cast_T = "f32"
    /\ cast_U = "f64"
    /\ cast_out = <<"f64", Fin(0, << >>, 24)>>
    /\ cast_direct = cast_v

\* C26: after the propagation of a Join, the output is valid exactly when
\* every input is valid, and input i is ready exactly when the output is
\* ready and every other input is valid
C26_JoinPropagated ==
    (part.kind = "join" /\ part_pc = "propagated") =>
        /\ part.u.data_out.valid <=> \A k \in 1..JoinSize : part.u.data_in[k].valid
        /\ \A i \in 1..JoinSize :
              part.u.data_in[i].ready <=>
                  /\ part.u.data_out.ready
                  /\ \A k \in 1..JoinSize \ {i} : part.u.data_in[k].valid

\* the Join has been propagated with a ready consumer and every input but
\* the first valid: the first input is ready, the others are not
C26_Witness ==
    /\ part.kind = "join" /\ part_pc = "propagated"
    /\ part.u.data_out.ready /\ ~part.u.data_out.valid
    /\ ~part.u.data_in[1].valid /\ part.u.data_in[1].ready
    /\ \A k \in 2..JoinSize : part.u.data_in[k].valid /\ ~part.u.data_in[k].ready

\* the token that output i of the Fork has passed ahead of the input: the
\* token on the input once the sub-register i is false
fork_ahead(i) ==
    IF as_bool(part.u.sub_reg[i].value) THEN << >> ELSE <<part.u.p["data_in"].data>>

\* C27: every output of a Fork has passed exactly the tokens that the input
\* has taken, in their order, plus the token on the input if the output has
\* already passed it; so when the input takes a token every output has
\* passed it once, whatever the consumers did
C27_ForkExactlyOnce ==
    part.kind = "fork" => \A i \in 1..2 : got[i] = sent \o fork_ahead(i)

\* the Fork has passed two tokens; the second consumer took the second
\* token one cycle or more after the first consumer
C27_Witness ==
    /\ part.kind = "fork" /\ part_pc = "updated"
    /\ sent = <<U32(1), U32(2)>>
    /\ got = <<sent, sent>>
    /\ last_cycle.accepted
    /\ last_cycle.took = <<FALSE, TRUE>>
    /\ prev_cycle.took = <<TRUE, FALSE>>

\* C28: after the propagation of a TEHB the input is ready exactly when the
\* TEHB is not full; when it is not full the output has the valid and the
\* data of the input; when it is full the output is valid with the token
\* that the TEHB has latched, the one token taken and not yet passed
C28_TehbPropagated ==
    (part.kind = "tehb" /\ part_pc = "propagated") =>
        /\ part.u.data_in.ready = ~as_bool(part.u.full_reg.value)
        /\ ~as_bool(part.u.full_reg.value) =>
              /\ part.u.data_out.valid = part.u.data_in.valid
              /\ part.u.data_out.data = part.u.data_in.data
              /\ Len(sent) = Len(got[1])
        /\ as_bool(part.u.full_reg.value) =>
              /\ part.u.data_out.valid
              /\ part.u.data_out.data = part.u.data_reg.value
              /\ Len(sent) = Len(got[1]) + 1
              /\ part.u.data_out.data = sent[Len(sent)]

\* the TEHB is full of the token 2 while its producer offers the token 1
C28_Witness ==
    /\ part.kind = "tehb" /\ part_pc = "propagated"
    /\ as_bool(part.u.full_reg.value)
    /\ part.u.data_in.valid /\ part.u.data_in.data = U32(1) /\ ~part.u.data_in.ready
    /\ part.u.data_out.valid /\ part.u.data_out.data = U32(2)
    /\ sent = <<U32(1), U32(2)>>

\* C29: an OEHB holds one token or none; what its output shows in a cycle is
\* the token that it holds, taken in an earlier cycle, and it shows it in
\* every cycle from the one after it took it; a token taken in one cycle is
\* passed in the next if the consumer is ready then; the tokens passed are
\* the tokens taken, in their order
C29_OehbOneCycle ==
    part.kind = "oehb" =>
        /\ Len(sent) = Len(got[1]) + (IF as_bool(part.u.full_reg.value) THEN 1 ELSE 0)
        /\ got[1] = SubSeq(sent, 1, Len(got[1]))
        /\ as_bool(part.u.full_reg.value) => part.u.data_reg.value = sent[Len(sent)]
        /\ part_pc = "propagated" =>
              /\ part.u.data_out.valid = (Len(sent) > Len(got[1]))
              /\ part.u.data_out.valid => part.u.data_out.data = sent[Len(sent)]
        /\ (part_pc = "updated" /\ prev_cycle.accepted /\ last_cycle.ready[1]) =>
              /\ last_cycle.took[1]
              /\ Len(got[1]) = Len(sent) - (IF last_cycle.accepted THEN 1 ELSE 0)

\* the OEHB took the token 1 in one cycle and passed it in the next, in
\* which it took the token 2
C29_Witness ==
    /\ part.kind = "oehb" /\ part_pc = "updated"
    /\ prev_cycle.accepted /\ prev_cycle.took = <<FALSE>>
    /\ last_cycle.accepted /\ last_cycle.took = <<TRUE>>
    /\ sent = <<U32(1), U32(2)>>
    /\ got = << <<U32(1)>> >>
    /\ part.u.data_reg.value = U32(2)

\* C30: an ElasticFIFO stores between 0 and depth tokens, and they are the
\* tokens that its input has taken (valid and ready in a cycle) and its
\* output has not passed (valid and ready in a cycle), in their order
C30_FifoCounts ==
    part.kind = "fifo" =>
        /\ Len(part.u.queue) \in 0..FifoDepth
        /\ sent = got[1] \o part.u.queue
        /\ part_pc = "updated" =>
              Len(part.u.queue) = Len(sent) - Len(got[1])

\* the ElasticFIFO has pushed the token 2 and popped the token 1 in the
\* same cycle
C30_Witness ==
    /\ part.kind = "fifo" /\ part_pc = "updated"
    /\ last_cycle.accepted /\ last_cycle.took = <<TRUE>>
    /\ sent = <<U32(1), U32(2)>>
    /\ got = << <<U32(1)>> >>
    /\ part.u.queue = <<U32(2)>>

\* the ElasticFIFO is full and its input is not ready
FifoFull ==
    /\ part.kind = "fifo" /\ part_pc = "propagated"
    /\ Len(part.u.queue) = FifoDepth
    /\ part.u.p["data_in"].valid /\ ~part.u.p["data_in"].ready

\* the inputs of the multiplexer that the condition does not select
unselected(m) ==
    {idx \in 0..(Len(m.data_in) - 1) :
        ~(m.condition.valid /\ as_u32(m.condition.data) = idx)}

UnselectedKeepTokens ==
    mux_pc = "propagated"
    => \A idx \in unselected(mux) :
          mux.data_in[idx + 1].ready = ~mux.data_in[idx + 1].valid

\* once the MuxDynamic is propagated with a valid condition, a valid selected
\* input and an empty TEHB, the output shows the selected token
MuxShowsSelected ==
    (mux_pc = "propagated" /\ mux.condition.valid
        /\ mux.data_in[as_u32(mux.condition.data) + 1].valid
        /\ ~as_bool(mux.tehb.full_reg.value))
    => /\ mux.data_out.valid
       /\ mux.data_out.data = mux.data_in[as_u32(mux.condition.data) + 1].data

C32_WorkListIsVisitSet ==
    /\ \A i, j \in 1..Len(update_list) : update_list[i] = update_list[j] => i = j
    /\ visit = {update_list[i] : i \in 1..Len(update_list)}

\* update() has just queued some units but not all, among them the buffer,
\* which has latched a token
C32_Witness ==
    /\ hs_pc = "idle"
    /\ update_list # << >>
    /\ Len(update_list) < Cardinality(Units)
    /\ "buf0" \in visit
    /\ as_bool(env["buf0"].oehb.full_reg.value)

\* C33: a ValueTiming of depth d >= 1 returns from get the value that was
\* staged d updates ago, neither earlier nor later (ERROR as long as fewer
\* than d updates have been made); a ValueTiming of depth 0 returns the
\* value staged in the same cycle; every update clears the staged value.
C33_ReadAfterDepthUpdates ==
    /\ timed.new_value = staged
    /\ timed.depth = 0 => ValueTiming_get_value(timed) = staged
    /\ timed.depth >= 1 =>
          ValueTiming_get_value(timed) =
             IF Len(committed) >= timed.depth
             THEN committed[Len(committed) - timed.depth + 1] ELSE ERROR

\* a ValueTiming of depth 2 that returns the value set two updates ago,
\* after an update with a different value
C33_Witness ==
    /\ timed.depth = 2
    /\ Len(committed) >= 2
    /\ ValueTiming_get_value(timed) = U32(1)
    /\ committed[Len(committed)] = U32(2)
    /\ staged = ERROR

\* C34: in a pipelined for of HEC the iterations enter ii steps of the
\* pipeline apart; once the loop runs, the induction variable i changes only
\* in a step in which the most recently entered iteration has made ii steps
\* and a new iteration enters; done is true only when no iteration is in
\* flight.
C34_IssuedEveryII ==
    /\ [](/\ \A k \in 1..(Len(issued) - 1) : issued[k + 1] - issued[k] = pf_fn.ii
          /\ pf.done = {TRUE} => pf.cur_stages = << >>)
    /\ [][(pf.cur_stages # << >> /\ pf'.i # pf.i)
            => /\ Head(pf.cur_stages) + 1 = pf_fn.ii
               /\ Head(pf'.cur_stages) = 0
               /\ Len(issued') = Len(issued) + 1]_vars

\* three iterations have entered a pipeline of three stages with ii = 2 and
\* two of them are in flight
C34_Witness ==
    /\ pf_fn.ii = 2
    /\ pf_fn.nstages = 3
    /\ Len(issued) = 3
    /\ Len(pf.cur_stages) = 2

\* the backlog of the mapping
backlog == size([store |-> store, high |-> high])

\* C35: the backlog of a mapping never exceeds, on either side, the
\* threshold of 10 plus the values harvested in one cycle.
C35_BacklogBounded ==
    /\ backlog <= SkewLimit + MaxHarvest
    /\ backlog >= -(SkewLimit + MaxHarvest)

\* in an iteration of the loop the HEC side is stepped only if it has not
\* finished and the backlog is below 10, the ToR side only if it has not
\* finished and the backlog is above -10
SteppedUnderThreshold ==
    [][/\ hec_left' # hec_left => (~hec_finish /\ backlog < SkewLimit)
       /\ tor_left' # tor_left => (~tor_finish /\ backlog > -SkewLimit)]_vars

\* C36: cosim() terminates, the two runs being finite.
C36_CosimTerminates == <>(cs_pc # "loop")

\* in every iteration of the loop that does not break, a side is advanced
SomeSideAdvances ==
    (cs_pc = "loop" /\ ~cosim_exit(tor_finish, hec_finish))
    => ((~tor_finish /\ sim_high_flag) \/ (~hec_finish /\ sim_low_flag))

\* with a mapping installed, in every iteration of the loop that does not
\* break, a side is advanced
SomeSideAdvancesWhenMapped == mapped => SomeSideAdvances

\* C37 as stated: in a ToR pipelined-for the iteration that entered last is
\* at the front of the list of the stages in flight, before the iterations
\* that entered earlier.
C37_NewestAtFront ==
    \A k \in 1..(Len(tor_env) - 1) : tor_env[k].i > tor_env[k + 1].i

\* C37: in a ToR pipelined-for an entering iteration is put at the end of
\* the list of the stages in flight, behind the iteration that entered
\* before it, with a clone of that iteration's environment in which iter is
\* incremented; the iteration that leaves is the first of the list, the one
\* that entered earliest.
C37_NewestAtBack ==
    /\ [](/\ Len(tor_env) = Len(stages)
          /\ \A k \in 1..(Len(tor_env) - 1) : tor_env[k + 1].i = tor_env[k].i + tor_fn.step)
    /\ [][/\ Len(stages') = Len(stages) + 1
             => /\ tor_env'[Len(stages')] =
                      [tor_env'[Len(stages)] EXCEPT !.i = @ + tor_fn.step]
                /\ stages'[Len(stages')].node = 1
                /\ stages'[Len(stages')].iter_cycle = 1
          /\ (Len(stages') <= Len(stages) /\ Len(stages) > 1 /\ stages[1].node = EndNode)
             => \A k \in 1..Len(tor_env') : tor_env'[k].i > tor_env[1].i]_vars

\* two iterations are in flight after the first iteration has left
C37_Witness ==
    /\ Len(stages) >= 2
    /\ tor_fn.lb = 0
    /\ tor_env[1].i >= 1
    /\ tor_active = "active"

\* the named results of an operation
result_names(op) ==
    CASE op.kind = "Compute" -> {op.name}
      [] op.kind \in {"For", "If", "Call"} -> {op.names[j] : j \in 1..Len(op.names)}
      [] OTHER -> {}

\* the operation that the next cycle of the software engine evaluates has a
\* breakpoint on one of its named results
at_breakpoint ==
    /\ OPERATION_STACK # << >>
    /\ OPERATION_STACK[Len(OPERATION_STACK)].op_now + 1
         <= Len(controller_ops(OPERATION_STACK[Len(OPERATION_STACK)]))
    /\ result_names(controller_op(OPERATION_STACK[Len(OPERATION_STACK)])) \cap BREAKPOINT # {}

\* C38: a cycle of the software engine run with breakpoints does not
\* evaluate an operation that has a breakpoint on a named result, whatever
\* the kind of the operation and of the controller that owns it.
C38_BreakBeforeEval ==
    [][at_breakpoint =>
         (break_hit' /\ UNCHANGED <<OPERATION_STACK, VARIABLE_VALUE>>)]_vars

\* a cycle run with breakpoints does not evaluate a Compute, a For or an If
\* with a breakpoint on a named result if a Function or a For controller
\* owns the operation
BreakInFunctionOrFor ==
    [][(/\ at_breakpoint
        /\ OPERATION_STACK[Len(OPERATION_STACK)].kind \in {"Function", "For"}
        /\ controller_op(OPERATION_STACK[Len(OPERATION_STACK)]).kind # "Call")
       => (break_hit' /\ UNCHANGED <<OPERATION_STACK, VARIABLE_VALUE>>)]_vars

\* the engine has stopped at a breakpoint
BreakHit == break_hit /\ at_breakpoint

\* the For of sum has completed: the controller of the called function is on
\* top of the stack, at the operation that follows the For
for_completed ==
    /\ OPERATION_STACK # << >>
    /\ OPERATION_STACK[Len(OPERATION_STACK)].kind = "Call"
    /\ OPERATION_STACK[Len(OPERATION_STACK)].op_now = 2

\* C40: once a For of the software engine has completed, its named results
\* are in the variable map, also when the body was not executed.
C40_ForResultsDefined ==
    for_completed => "acc" \in DOMAIN VARIABLE_VALUE

\* once a For whose lower bound is below its upper bound has completed, its
\* named results are in the variable map
ForResultsDefinedAfterBody ==
    (for_completed /\ as_u32(VARIABLE_VALUE["n"]) > 0) => "acc" \in DOMAIN VARIABLE_VALUE

\* a For has completed after two executions of its body
ForCompletedAfterBody ==
    /\ for_completed
    /\ "acc" \in DOMAIN VARIABLE_VALUE
    /\ as_u32(VARIABLE_VALUE["acc"]) >= 1

\* C39: the Stream and the HEC FIFO never hold more elements than their
\* declared depth, and no pop or committed read is made on an empty queue.
C39_QueuesWithinCapacity ==
    /\ Len(fifo.store) <= fifo.depth
    /\ Len(strm.store) <= strm.depth
    /\ q_fail = "none"

\* the Stream never holds more elements than its depth and is never popped
\* when empty; the same holds of the FIFO as long as every state is stepped
\* after the test of its streams
GuardedQueuesWithinCapacity ==
    /\ Len(strm.store) <= strm.depth
    /\ q_fail # "stream"
    /\ ~unguarded => (Len(fifo.store) <= fifo.depth /\ q_fail = "none")

\* both queues are full
QueuesFull == queue_is_full(fifo) /\ queue_is_full(strm) /\ ~unguarded



=========================================================================
